---- MODULE Spec2Model ----
(***************************************************************************)
(* Model of two subsystems of scenescape:                                  *)
(*   - cluster_analytics: TrackedCluster (lifecycle FSM), ClusterMemory,   *)
(*     HungarianMatcher, ClusterTracker and the publishing part of         *)
(*     ClusterAnalyticsContext;                                            *)
(*   - controller: Tracking (per-category worker threads and their         *)
(*     queues) and the dropped-message counter of observability.metrics.   *)
(*                                                                         *)
(* Numbers.  Python floats are modelled exactly as rationals:              *)
(*   - confidence and stability_score are records [num, den], den > 0;     *)
(*   - thresholds given as decimals in the source are in hundredths        *)
(*     (ACTIVATION_THRESHOLD == 60 stands for 0.6);                        *)
(*   - positions and velocities have integer coordinates with y = 0, so    *)
(*     that np.linalg.norm is an absolute value; predicted positions and   *)
(*     matching costs are kept in the fixed scales PredScale, CostScale.   *)
(***************************************************************************)
EXTENDS Integers, Sequences, FiniteSets, TLC

VARIABLES
  tc,                     \* SpecFsm: one TrackedCluster object, or NoCluster
  tc_calls,               \* SpecFsm: how many update / markMissed calls tc has had,
                          \* and how many misses the updates have reset
  active_clusters,        \* ClusterMemory._active_clusters: uuid -> cluster
  archived_clusters,      \* ClusterMemory._archived_clusters, in insertion order
  clusters_by_scene,      \* ClusterMemory._clusters_by_scene: scene -> Seq(uuid)
  clusters_by_category,   \* ClusterMemory._clusters_by_category: category -> Seq(uuid)
  next_uuid,              \* the next fresh uuid (uuid.uuid4())
  user_dbscan_params_by_scene,
                          \* ClusterAnalyticsContext.user_dbscan_params_by_scene:
                          \* scene -> lower-case category -> parameters
  published,              \* what the last processSceneAnalytics call handed to
                          \* client.publish (NoBatch: nothing, client not connected)
  message,                \* the last input handled: a scene message or a call of
                          \* setUserDbscanParamsForCategory
  clock,                  \* the timestamp of the last scene message
  frames,                 \* the number of scene messages processed
  trackers,               \* Tracking.trackers: the worker of each category
  metrics_instance,       \* metrics._metrics_instance
  dropped,                \* the dropped-messages counter, by category
  call,                   \* the last trackObjects call
  joiner,                 \* the thread that calls Tracking.join(), and where it is
  matching,               \* SpecMatch: the arguments of one HungarianMatcher.match
                          \* call and, once it has returned, what it chose
  mqtt,                   \* SpecThreads: the thread of the MQTT loop, and where it
                          \* is in processSceneAnalytics
  webui                   \* SpecThreads: the thread of the WebUI server, where it
                          \* is in handleUpdateClusteringConfig, and WebUI.sceneData

cvars == <<active_clusters, archived_clusters, clusters_by_scene,
           clusters_by_category, next_uuid, user_dbscan_params_by_scene,
           published, message, clock, frames>>

kvars == <<trackers, metrics_instance, dropped, call, joiner>>

ovars == <<matching, mqtt, webui>>

vars == <<tc, tc_calls, active_clusters, archived_clusters, clusters_by_scene,
          clusters_by_category, next_uuid, user_dbscan_params_by_scene,
          published, message, clock, frames,
          trackers, metrics_instance, dropped, call, joiner, matching,
          mqtt, webui>>

-----------------------------------------------------------------------------
(* Arithmetic helpers *)

Min(a, b) == IF a <= b THEN a ELSE b

Max(a, b) == IF a >= b THEN a ELSE b

Abs(a) == IF a >= 0 THEN a ELSE -a

RECURSIVE Gcd(_, _)
Gcd(a, b) == IF b = 0 THEN a ELSE Gcd(b, a % b)

\* the rational n/d in lowest terms (d > 0, n >= 0)
Rat(n, d) == LET g == Gcd(n, d) IN [num |-> n \div g, den |-> d \div g]

\* r > p/100
RatGT(r, p) == r.num * 100 > p * r.den

RECURSIVE SumSeq(_)
SumSeq(s) == IF s = <<>> THEN 0 ELSE Head(s) + SumSeq(Tail(s))

\* Python's s[-n:]
LastN(s, n) == IF Len(s) > n THEN SubSeq(s, Len(s) - n + 1, Len(s)) ELSE s

\* n*n times np.var(s) for n = Len(s): n * sum(x^2) - (sum x)^2
VarNum(s) ==
  LET sq == [i \in 1..Len(s) |-> s[i] * s[i]]
  IN  Len(s) * SumSeq(sq) - SumSeq(s) * SumSeq(s)

-----------------------------------------------------------------------------
(* ClusterState *)

S_NEW == "new"

S_ACTIVE == "active"

S_STABLE == "stable"

S_FADING == "fading"

S_LOST == "lost"

ClusterStates == {S_NEW, S_ACTIVE, S_STABLE, S_FADING, S_LOST}

(* TrackedCluster.__init__: hardcoded tracking parameters *)
FRAMES_TO_ACTIVATE == 3

FRAMES_TO_STABLE == 20

FRAMES_TO_FADE == 15

FRAMES_TO_LOST == 10

\* ClusterAnalyticsConfig: state_transitions.frames_to_fade, never read by
\* TrackedCluster
CONFIG_FRAMES_TO_FADE == 5

\* ClusterAnalyticsConfig: state_transitions.frames_to_lost
CONFIG_FRAMES_TO_LOST == 10

\* hundredths
INITIAL_CONFIDENCE == 50

ACTIVATION_THRESHOLD == 60

STABILITY_THRESHOLD == 70

CONFIDENCE_MISS_PENALTY == 10

CONFIDENCE_MAX_MISS_PENALTY == 50

CONFIDENCE_LONGEVITY_BONUS_MAX == 20

CONFIDENCE_LONGEVITY_FRAMES == 100

MAX_HISTORY_SIZE == 100

\* _updateStabilityScore: history[-10:]
STABILITY_WINDOW == 10

\* _updatePrediction: velocities[-5:]
PREDICTION_WINDOW == 5

\* predicted positions are kept in units of 1/PredScale: the mean of up to
\* PREDICTION_WINDOW integer velocities is a multiple of 1/60
PredScale == 60

NoCluster == [state |-> "none"]

NoBatch == [scene_id |-> "none"]

NoMessage == [scene_id |-> "none"]

NoMatching == [done |-> FALSE]

\* the MQTT loop waits for a message
MqttIdle == [pc |-> "idle", scene_id |-> "none", detections |-> <<>>, timestamp |-> 0]

\* the WebUI server waits for an event; no scene has sent objects so far
WebIdle ==
  [pc |-> "idle", scene_id |-> "none", sceneData |-> [s \in {"s1", "s2"} |-> "none"],
   updates |-> 0]

-----------------------------------------------------------------------------
(* ClusterHistory *)

EmptyHistory ==
  [positions |-> <<>>, velocities |-> <<>>, sizes |-> <<>>,
   shapes |-> <<>>, timestamps |-> <<>>]

\* a slip addObservation could have: the lists are never trimmed
addObservation_noTrim(h, position, velocity, size, shape, timestamp) ==
  [positions  |-> Append(h.positions, <<position.x, position.y, timestamp>>),
   velocities |-> Append(h.velocities, <<velocity, 0, timestamp>>),
   sizes      |-> Append(h.sizes, size),
   shapes     |-> Append(h.shapes, shape),
   timestamps |-> Append(h.timestamps, timestamp)]

\* a slip addObservation could have: the slices keep the first
\* MAX_HISTORY_SIZE entries, [:MAX_HISTORY_SIZE] for [-MAX_HISTORY_SIZE:]
addObservation_dropNewest(h, position, velocity, size, shape, timestamp) ==
  LET a == [positions  |-> Append(h.positions, <<position.x, position.y, timestamp>>),
            velocities |-> Append(h.velocities, <<velocity, 0, timestamp>>),
            sizes      |-> Append(h.sizes, size),
            shapes     |-> Append(h.shapes, shape),
            timestamps |-> Append(h.timestamps, timestamp)]
  IN  IF Len(a.timestamps) > MAX_HISTORY_SIZE
      THEN [positions  |-> SubSeq(a.positions, 1, MAX_HISTORY_SIZE),
            velocities |-> SubSeq(a.velocities, 1, MAX_HISTORY_SIZE),
            sizes      |-> SubSeq(a.sizes, 1, MAX_HISTORY_SIZE),
            shapes     |-> SubSeq(a.shapes, 1, MAX_HISTORY_SIZE),
            timestamps |-> SubSeq(a.timestamps, 1, MAX_HISTORY_SIZE)]
      ELSE a

addObservation(h, position, velocity, size, shape, timestamp) ==
  LET a == [positions  |-> Append(h.positions, <<position.x, position.y, timestamp>>),
            velocities |-> Append(h.velocities, <<velocity, 0, timestamp>>),
            sizes      |-> Append(h.sizes, size),
            shapes     |-> Append(h.shapes, shape),
            timestamps |-> Append(h.timestamps, timestamp)]
  IN  IF Len(a.timestamps) > MAX_HISTORY_SIZE
      THEN [positions  |-> LastN(a.positions, MAX_HISTORY_SIZE),
            velocities |-> LastN(a.velocities, MAX_HISTORY_SIZE),
            sizes      |-> LastN(a.sizes, MAX_HISTORY_SIZE),
            shapes     |-> LastN(a.shapes, MAX_HISTORY_SIZE),
            timestamps |-> LastN(a.timestamps, MAX_HISTORY_SIZE)]
      ELSE a

-----------------------------------------------------------------------------
(* TrackedCluster *)

\* a slip _updateConfidence could have: the sum is not clamped to [0, 1]
updateConfidence_noClamp(c) ==
  LET t     == Max(c.total_frames, 1)
      den   == 100 * CONFIDENCE_LONGEVITY_FRAMES * t
      base  == 100 * CONFIDENCE_LONGEVITY_FRAMES * c.frames_detected
      miss  == Min(c.frames_missed * CONFIDENCE_MISS_PENALTY,
                   CONFIDENCE_MAX_MISS_PENALTY) * CONFIDENCE_LONGEVITY_FRAMES * t
      bonus == Min(100 * c.frames_detected,
                   CONFIDENCE_LONGEVITY_BONUS_MAX * CONFIDENCE_LONGEVITY_FRAMES) * t
  IN  [c EXCEPT !.confidence = Rat(base - miss + bonus, den)]

\* confidence = clamp(fd/max(total,1) - min(fm*0.1, 0.5) + min(fd/100, 0.2)),
\* over the common denominator 100 * LONGEVITY_FRAMES * max(total, 1)
updateConfidence(c) ==
  LET t     == Max(c.total_frames, 1)
      den   == 100 * CONFIDENCE_LONGEVITY_FRAMES * t
      base  == 100 * CONFIDENCE_LONGEVITY_FRAMES * c.frames_detected
      miss  == Min(c.frames_missed * CONFIDENCE_MISS_PENALTY,
                   CONFIDENCE_MAX_MISS_PENALTY) * CONFIDENCE_LONGEVITY_FRAMES * t
      bonus == Min(100 * c.frames_detected,
                   CONFIDENCE_LONGEVITY_BONUS_MAX * CONFIDENCE_LONGEVITY_FRAMES) * t
      raw   == base - miss + bonus
  IN  [c EXCEPT !.confidence = Rat(Max(0, Min(den, raw)), den)]

\* the number of occurrences of the most common shape
ModeCount(shapes) ==
  LET cnt(v) == Cardinality({i \in 1..Len(shapes) : shapes[i] = v})
      vals   == {shapes[i] : i \in 1..Len(shapes)}
  IN  CHOOSE m \in {cnt(v) : v \in vals} : \A v \in vals : cnt(v) <= m

\* 0.4 * position_stability + 0.3 * size_stability + 0.3 * shape_consistency
WeightedStability(ps, ss, sc) ==
  Rat(4 * ps.num * ss.den * sc.den + 3 * ss.num * ps.den * sc.den
        + 3 * sc.num * ps.den * ss.den,
      10 * ps.den * ss.den * sc.den)

\* 1 / (1 + variance), the variance being vnum / vden
StabilityOf(vnum, vden) == Rat(vden, vden + vnum)

updateStabilityScore(c) ==
  IF Len(c.history.positions) < 3
  THEN [c EXCEPT !.stability_score = Rat(0, 1)]
  ELSE
    LET rp == LastN(c.history.positions, STABILITY_WINDOW)
        rs == LastN(c.history.sizes, STABILITY_WINDOW)
        rh == LastN(c.history.shapes, STABILITY_WINDOW)
        xs == [i \in 1..Len(rp) |-> rp[i][1]]
        ys == [i \in 1..Len(rp) |-> rp[i][2]]
    IN  [c EXCEPT !.stability_score =
           WeightedStability(
             \* position_variance = mean(var x, var y)
             StabilityOf(VarNum(xs) + VarNum(ys), 2 * Len(rp) * Len(rp)),
             StabilityOf(VarNum(rs), Len(rs) * Len(rs)),
             Rat(ModeCount(rh), Len(rh)))]

\* a slip _updateState could have: activation needs one detection less
updateState_activateEarly(c) ==
  IF c.state = S_NEW
  THEN IF c.frames_detected >= FRAMES_TO_ACTIVATE - 1 /\ RatGT(c.confidence, ACTIVATION_THRESHOLD)
       THEN [c EXCEPT !.state = S_ACTIVE] ELSE c
  ELSE IF c.state = S_ACTIVE
  THEN IF c.frames_detected >= FRAMES_TO_STABLE /\ RatGT(c.stability_score, STABILITY_THRESHOLD)
       THEN [c EXCEPT !.state = S_STABLE]
       ELSE IF c.frames_missed >= FRAMES_TO_FADE
            THEN [c EXCEPT !.state = S_FADING] ELSE c
  ELSE IF c.state = S_STABLE
  THEN IF c.frames_missed >= FRAMES_TO_FADE
       THEN [c EXCEPT !.state = S_FADING] ELSE c
  ELSE IF c.state = S_FADING
  THEN IF c.frames_missed >= FRAMES_TO_LOST
       THEN [c EXCEPT !.state = S_LOST]
       ELSE IF c.frames_missed = 0
            THEN [c EXCEPT !.state = S_ACTIVE] ELSE c
  ELSE c

\* a slip _updateState could have: activation needs one detection more
updateState_activateLate(c) ==
  IF c.state = S_NEW
  THEN IF c.frames_detected > FRAMES_TO_ACTIVATE /\ RatGT(c.confidence, ACTIVATION_THRESHOLD)
       THEN [c EXCEPT !.state = S_ACTIVE] ELSE c
  ELSE IF c.state = S_ACTIVE
  THEN IF c.frames_detected >= FRAMES_TO_STABLE /\ RatGT(c.stability_score, STABILITY_THRESHOLD)
       THEN [c EXCEPT !.state = S_STABLE]
       ELSE IF c.frames_missed >= FRAMES_TO_FADE
            THEN [c EXCEPT !.state = S_FADING] ELSE c
  ELSE IF c.state = S_STABLE
  THEN IF c.frames_missed >= FRAMES_TO_FADE
       THEN [c EXCEPT !.state = S_FADING] ELSE c
  ELSE IF c.state = S_FADING
  THEN IF c.frames_missed >= FRAMES_TO_LOST
       THEN [c EXCEPT !.state = S_LOST]
       ELSE IF c.frames_missed = 0
            THEN [c EXCEPT !.state = S_ACTIVE] ELSE c
  ELSE c

\* a slip _updateState could have: ACTIVE fades at FRAMES_TO_LOST
updateState_fadeAtLost(c) ==
  IF c.state = S_NEW
  THEN IF c.frames_detected >= FRAMES_TO_ACTIVATE /\ RatGT(c.confidence, ACTIVATION_THRESHOLD)
       THEN [c EXCEPT !.state = S_ACTIVE] ELSE c
  ELSE IF c.state = S_ACTIVE
  THEN IF c.frames_detected >= FRAMES_TO_STABLE /\ RatGT(c.stability_score, STABILITY_THRESHOLD)
       THEN [c EXCEPT !.state = S_STABLE]
       ELSE IF c.frames_missed >= FRAMES_TO_LOST
            THEN [c EXCEPT !.state = S_FADING] ELSE c
  ELSE IF c.state = S_STABLE
  THEN IF c.frames_missed >= FRAMES_TO_FADE
       THEN [c EXCEPT !.state = S_FADING] ELSE c
  ELSE IF c.state = S_FADING
  THEN IF c.frames_missed >= FRAMES_TO_LOST
       THEN [c EXCEPT !.state = S_LOST]
       ELSE IF c.frames_missed = 0
            THEN [c EXCEPT !.state = S_ACTIVE] ELSE c
  ELSE c

updateState(c) ==
  IF c.state = S_NEW
  THEN IF c.frames_detected >= FRAMES_TO_ACTIVATE /\ RatGT(c.confidence, ACTIVATION_THRESHOLD)
       THEN [c EXCEPT !.state = S_ACTIVE] ELSE c
  ELSE IF c.state = S_ACTIVE
  THEN IF c.frames_detected >= FRAMES_TO_STABLE /\ RatGT(c.stability_score, STABILITY_THRESHOLD)
       THEN [c EXCEPT !.state = S_STABLE]
       ELSE IF c.frames_missed >= FRAMES_TO_FADE
            THEN [c EXCEPT !.state = S_FADING] ELSE c
  ELSE IF c.state = S_STABLE
  THEN IF c.frames_missed >= FRAMES_TO_FADE
       THEN [c EXCEPT !.state = S_FADING] ELSE c
  ELSE IF c.state = S_FADING
  THEN IF c.frames_missed >= FRAMES_TO_LOST
       THEN [c EXCEPT !.state = S_LOST]
       ELSE IF c.frames_missed = 0
            THEN [c EXCEPT !.state = S_ACTIVE] ELSE c
  ELSE c

\* predicted_position, in units of 1/PredScale
updatePrediction(c) ==
  IF Len(c.history.positions) < 2
  THEN [c EXCEPT !.predicted_position =
          [x |-> PredScale * c.centroid.x, y |-> PredScale * c.centroid.y]]
  ELSE
    LET rv == LastN(c.history.velocities, PREDICTION_WINDOW)
        vx == [i \in 1..Len(rv) |-> rv[i][1]]
        vy == [i \in 1..Len(rv) |-> rv[i][2]]
    IN  [c EXCEPT !.predicted_position =
           [x |-> PredScale * c.centroid.x + (PredScale * SumSeq(vx)) \div Len(rv),
            y |-> PredScale * c.centroid.y + (PredScale * SumSeq(vy)) \div Len(rv)]]

\* TrackedCluster.__init__ (through ClusterTracker._createTrackedCluster)
TrackedCluster(id, scene_id, det, detection_timestamp) ==
  updatePrediction(
    [uuid |-> id, scene_id |-> scene_id, category |-> det.category,
     state |-> S_NEW,
     centroid |-> det.center_of_mass,
     shape |-> det.shape,
     velocity |-> det.average_velocity,
     object_count |-> det.objects_count,
     first_seen |-> detection_timestamp,
     last_seen |-> detection_timestamp,
     last_updated |-> detection_timestamp,
     frames_detected |-> 1, frames_missed |-> 0, total_frames |-> 1,
     history |-> addObservation(EmptyHistory, det.center_of_mass, det.average_velocity,
                                det.objects_count, det.shape, detection_timestamp),
     confidence |-> Rat(INITIAL_CONFIDENCE, 100),
     stability_score |-> Rat(0, 1),
     predicted_position |-> [x |-> 0, y |-> 0]])

\* a slip update() could have: total_frames is not counted
updateCounters_noTotal(c) ==
  [c EXCEPT !.frames_detected = c.frames_detected + 1,
            !.frames_missed = 0]

\* the counter assignments of update()
updateCounters(c) ==
  [c EXCEPT !.frames_detected = c.frames_detected + 1,
            !.total_frames = c.total_frames + 1,
            !.frames_missed = 0]

update(c, det, detection_timestamp) ==
  LET c1 == [updateCounters(c) EXCEPT
               !.centroid = det.center_of_mass,
               !.shape = det.shape,
               !.velocity = det.average_velocity,
               !.object_count = det.objects_count,
               !.last_seen = detection_timestamp,
               !.last_updated = detection_timestamp]
      c2 == [c1 EXCEPT !.history =
               addObservation(c1.history, det.center_of_mass, det.average_velocity,
                              det.objects_count, det.shape, detection_timestamp)]
  IN  updatePrediction(updateState(updateStabilityScore(updateConfidence(c2))))

markMissed(c, current_timestamp) ==
  LET c1 == [c EXCEPT !.frames_missed = c.frames_missed + 1,
                      !.total_frames = c.total_frames + 1,
                      !.last_updated = current_timestamp]
  IN  updateState(updateConfidence(c1))

\* a slip shouldBeArchived could have: the state is not looked at
shouldBeArchived_anyState(c, current_time, max_time_lost) ==
  current_time - c.last_seen > max_time_lost

\* shouldBeArchived(current_time, max_time_lost)
shouldBeArchived(c, current_time, max_time_lost) ==
  c.state = S_LOST /\ current_time - c.last_seen > max_time_lost

-----------------------------------------------------------------------------
(* ClusterMemory.  A memory is a record of the four containers and of the *)
(* next fresh uuid; _active_clusters is a dict filled in uuid order, so    *)
(* its iteration order is the ascending order of the uuids.                *)

MAX_ACTIVE_CLUSTERS == 10

MAX_ARCHIVED_CLUSTERS == 50

ARCHIVE_TIME_THRESHOLD == 5

Scenes == {"s1", "s2"}

\* the categories objects come with; "Person" and "person" differ in case only
Categories == {"person", "vehicle", "Person"}

EmptyMemory ==
  [active_clusters |-> <<>>,
   archived_clusters |-> <<>>,
   clusters_by_scene |-> [s \in Scenes |-> <<>>],
   clusters_by_category |-> [k \in Categories |-> <<>>],
   next_uuid |-> 1]

\* list.remove(x): the first occurrence is removed
RemoveFirst(s, x) ==
  IF \E i \in 1..Len(s) : s[i] = x
  THEN LET i == CHOOSE j \in 1..Len(s) : s[j] = x /\ \A k \in 1..(j - 1) : s[k] # x
       IN  SubSeq(s, 1, i - 1) \o SubSeq(s, i + 1, Len(s))
  ELSE s

\* the keys of _active_clusters in iteration order
RECURSIVE SortedSeq(_)
SortedSeq(S) ==
  IF S = {} THEN <<>>
  ELSE LET x == CHOOSE y \in S : \A z \in S : y <= z
       IN  <<x>> \o SortedSeq(S \ {x})

ActiveIds(m) == SortedSeq(DOMAIN m.active_clusters)

\* dict assignment d[k] = v
Put(d, k, v) == [x \in DOMAIN d \cup {k} |-> IF x = k THEN v ELSE d[x]]

\* dict.pop(k)
Drop(d, k) == [x \in DOMAIN d \ {k} |-> d[x]]

add(m, cluster) ==
  [m EXCEPT
     !.active_clusters = Put(m.active_clusters, cluster.uuid, cluster),
     !.clusters_by_scene[cluster.scene_id] = Append(@, cluster.uuid),
     !.clusters_by_category[cluster.category] = Append(@, cluster.uuid)]

\* getClustersByScene: the uuids, in index order, that are in active memory
getClustersByScene(m, scene_id) ==
  LET InActive(u) == u \in DOMAIN m.active_clusters
  IN  SelectSeq(m.clusters_by_scene[scene_id], InActive)

\* getClustersByCategory(category, scene_id) with a scene
getClustersByCategory(m, category, scene_id) ==
  LET HasCategory(u) == m.active_clusters[u].category = category
  IN  SelectSeq(getClustersByScene(m, scene_id), HasCategory)

\* a slip archive could have: the cluster is copied to the archive and stays
\* in active memory
archive_noPop(m, cluster_uuid) ==
  IF cluster_uuid \in DOMAIN m.active_clusters
  THEN [m EXCEPT !.archived_clusters = Append(@, m.active_clusters[cluster_uuid])]
  ELSE m

archive(m, cluster_uuid) ==
  IF cluster_uuid \in DOMAIN m.active_clusters
  THEN LET cluster == m.active_clusters[cluster_uuid]
       IN  [m EXCEPT
              !.active_clusters = Drop(m.active_clusters, cluster_uuid),
              !.archived_clusters = Append(@, cluster),
              !.clusters_by_scene[cluster.scene_id] = RemoveFirst(@, cluster_uuid),
              !.clusters_by_category[cluster.category] = RemoveFirst(@, cluster_uuid)]
  ELSE m

RECURSIVE archiveAll(_, _)
archiveAll(m, uuids) ==
  IF uuids = <<>> THEN m ELSE archiveAll(archive(m, Head(uuids)), Tail(uuids))

\* sorted(..., key=last_seen)[:to_remove] are deleted: the sort is stable, so
\* among equal last_seen the cluster archived first goes first
RECURSIVE evictOldest(_, _)
evictOldest(archived, to_remove) ==
  IF to_remove <= 0 \/ archived = <<>> THEN archived
  ELSE LET i == CHOOSE j \in 1..Len(archived) :
                  /\ \A k \in 1..Len(archived) : archived[j].last_seen <= archived[k].last_seen
                  /\ \A k \in 1..(j - 1) : archived[k].last_seen # archived[j].last_seen
       IN  evictOldest(SubSeq(archived, 1, i - 1) \o SubSeq(archived, i + 1, Len(archived)),
                       to_remove - 1)

cleanupOldClusters(m, current_time) ==
  LET Due(u) == shouldBeArchived(m.active_clusters[u], current_time, ARCHIVE_TIME_THRESHOLD)
      m1 == archiveAll(m, SelectSeq(ActiveIds(m), Due))
  IN  IF Len(m1.archived_clusters) > MAX_ARCHIVED_CLUSTERS
      THEN [m1 EXCEPT !.archived_clusters =
              evictOldest(@, Len(m1.archived_clusters) - MAX_ARCHIVED_CLUSTERS)]
      ELSE m1

RECURSIVE forceArchiveAll(_, _)
forceArchiveAll(m, uuids) ==
  IF uuids = <<>> THEN m
  ELSE LET u == Head(uuids)
       IN  forceArchiveAll(
             archive([m EXCEPT !.active_clusters[u].state = S_LOST], u), Tail(uuids))

forceClearClustersByCategory(m, scene_id, category) ==
  LET Hit(u) == /\ m.active_clusters[u].scene_id = scene_id
                /\ m.active_clusters[u].category = category
  IN  forceArchiveAll(m, SelectSeq(ActiveIds(m), Hit))

-----------------------------------------------------------------------------
(* HungarianMatcher.  Costs are exact, in units of 1/CostScale: the weights *)
(* are tenths and predicted positions are in units of 1/PredScale.  The    *)
(* detections of the model lie on the x axis, so that the Euclidean norm    *)
(* of a difference is the absolute value of its x component.               *)

MAX_MATCHING_DISTANCE == 5

POSITION_WEIGHT == 4

VELOCITY_WEIGHT == 3

SIZE_WEIGHT == 2

SHAPE_WEIGHT == 1

CostScale == 10 * PredScale

\* float('inf'), above every finite cost of the model
Infinity == 1000000000

calculateMatchingCost(tracked, detection) ==
  IF tracked.category # detection.category THEN Infinity
  ELSE LET position_distance ==
             Abs(tracked.predicted_position.x - PredScale * detection.center_of_mass.x)
           velocity_distance == Abs(tracked.velocity - detection.average_velocity)
           size_diff == Abs(tracked.object_count - detection.objects_count)
           shape_match == tracked.shape = detection.shape
       IN  POSITION_WEIGHT * position_distance
           + PredScale * VELOCITY_WEIGHT * velocity_distance
           + PredScale * SIZE_WEIGHT * size_diff
           + PredScale * SHAPE_WEIGHT * (IF shape_match THEN 1 ELSE 2)

\* cost_matrix[i][j] for clusters i and detections j
buildCostMatrix(existing_clusters, new_detections) ==
  [i \in 1..Len(existing_clusters) |->
     [j \in 1..Len(new_detections) |->
        calculateMatchingCost(existing_clusters[i], new_detections[j])]]

Injections(A, B) ==
  {f \in [A -> B] : \A a1, a2 \in A : a1 # a2 => f[a1] # f[a2]}

\* the complete assignments of an n x m matrix: min(n, m) pairs <<row, col>>
\* with no row and no column used twice
Assignments(n, m) ==
  IF n <= m
  THEN {{<<i, f[i]>> : i \in 1..n} : f \in Injections(1..n, 1..m)}
  ELSE {{<<g[j], j>> : j \in 1..m} : g \in Injections(1..m, 1..n)}

RECURSIVE SumCost(_, _)
SumCost(cost_matrix, pairs) ==
  IF pairs = {} THEN 0
  ELSE LET p == CHOOSE q \in pairs : TRUE
       IN  cost_matrix[p[1]][p[2]] + SumCost(cost_matrix, pairs \ {p})

\* the solver applied to the leading square block of the matrix only
linear_sum_assignment_square(cost_matrix, n, m) ==
  LET k == IF n <= m THEN n ELSE m
  IN  {a \in Assignments(k, k) :
         \A b \in Assignments(k, k) : SumCost(cost_matrix, a) <= SumCost(cost_matrix, b)}

\* linear_sum_assignment returns a complete assignment of minimal total
\* cost; which one it returns among several of equal cost is left open
linear_sum_assignment(cost_matrix, n, m) ==
  {a \in Assignments(n, m) :
     \A b \in Assignments(n, m) : SumCost(cost_matrix, a) <= SumCost(cost_matrix, b)}

\* the threshold filter keeping a pair whose cost equals max_distance
filterMatches_atMost(cost_matrix, a) ==
  {p \in a : cost_matrix[p[1]][p[2]] <= MAX_MATCHING_DISTANCE * CostScale}

\* the pairs an assignment keeps after the threshold
filterMatches(cost_matrix, a) ==
  {p \in a : cost_matrix[p[1]][p[2]] < MAX_MATCHING_DISTANCE * CostScale}

\* match: the possible results, each a set of pairs <<cluster index,
\* detection index>> into the two argument lists
match(existing_clusters, new_detections) ==
  IF existing_clusters = <<>> \/ new_detections = <<>> THEN {{}}
  ELSE LET cost_matrix == buildCostMatrix(existing_clusters, new_detections)
       IN  {filterMatches(cost_matrix, a) :
              a \in linear_sum_assignment(cost_matrix, Len(existing_clusters),
                                          Len(new_detections))}

\* similarity = 1.0 - cost / max_distance, as a multiple of
\* 1 / (MAX_MATCHING_DISTANCE * CostScale)
similarity(cost) == MAX_MATCHING_DISTANCE * CostScale - cost

\* match with what it computes on the way: the assignment the solver
\* returned and the list returned, a tuple <<cluster uuid, detection index,
\* similarity>> for every pair kept
matchOutcomes(existing_clusters, new_detections) ==
  IF existing_clusters = <<>> \/ new_detections = <<>>
  THEN {[assignment |-> {}, matches |-> {}]}
  ELSE LET cost_matrix == buildCostMatrix(existing_clusters, new_detections)
       IN  {[assignment |-> a,
             matches |-> {<<existing_clusters[p[1]].uuid, p[2],
                            similarity(cost_matrix[p[1]][p[2]])>> :
                            p \in filterMatches(cost_matrix, a)}] :
              a \in linear_sum_assignment(cost_matrix, Len(existing_clusters),
                                          Len(new_detections))}

-----------------------------------------------------------------------------
(* ClusterTracker *)

\* _groupByCategory: the categories in order of first appearance
RECURSIVE groupByCategory(_)
groupByCategory(detections) ==
  IF detections = <<>> THEN <<>>
  ELSE LET k == Head(detections).category
           Other(d) == d.category # k
       IN  <<k>> \o groupByCategory(SelectSeq(Tail(detections), Other))

categoryDetections(detections, category) ==
  LET Same(d) == d.category = category
  IN  SelectSeq(detections, Same)

IsTrackable(c) == c.state \in {S_NEW, S_ACTIVE, S_STABLE, S_FADING}

\* the trackable clusters of a scene and category, as uuids
trackableClusters(m, scene_id, category) ==
  LET Trackable(u) == IsTrackable(m.active_clusters[u])
  IN  SelectSeq(getClustersByCategory(m, category, scene_id), Trackable)

\* a slip the loop could have: a cluster is created for every detection,
\* matched or not
RECURSIVE createUnmatched_all(_, _, _, _, _, _)
createUnmatched_all(m, scene_id, detections, matched_detection_indices, timestamp, idx) ==
  IF idx > Len(detections) THEN m
  ELSE createUnmatched_all(
         [add(m, TrackedCluster(m.next_uuid, scene_id, detections[idx], timestamp))
            EXCEPT !.next_uuid = m.next_uuid + 1],
         scene_id, detections, matched_detection_indices, timestamp, idx + 1)

\* the loop that creates a cluster for every unmatched detection, from idx on
RECURSIVE createUnmatched(_, _, _, _, _, _)
createUnmatched(m, scene_id, detections, matched_detection_indices, timestamp, idx) ==
  IF idx > Len(detections) THEN m
  ELSE IF idx \in matched_detection_indices
  THEN createUnmatched(m, scene_id, detections, matched_detection_indices, timestamp, idx + 1)
  ELSE createUnmatched(
         [add(m, TrackedCluster(m.next_uuid, scene_id, detections[idx], timestamp))
            EXCEPT !.next_uuid = m.next_uuid + 1],
         scene_id, detections, matched_detection_indices, timestamp, idx + 1)

\* _processCategoryDetections once the matcher has returned matches
processCategoryDetections(m, scene_id, category, detections, timestamp, matches) ==
  LET trackable_clusters == trackableClusters(m, scene_id, category)
      matched_cluster_uuids == {trackable_clusters[p[1]] : p \in matches}
      matched_detection_indices == {p[2] : p \in matches}
      DetOf(u) == LET p == CHOOSE q \in matches : trackable_clusters[q[1]] = u
                  IN  detections[p[2]]
      m1 == [m EXCEPT !.active_clusters =
               [u \in DOMAIN m.active_clusters |->
                  IF u \in matched_cluster_uuids
                  THEN update(m.active_clusters[u], DetOf(u), timestamp)
                  ELSE m.active_clusters[u]]]
      m2 == createUnmatched(m1, scene_id, detections, matched_detection_indices, timestamp, 1)
      unmatched == {trackable_clusters[i] : i \in 1..Len(trackable_clusters)}
                     \ matched_cluster_uuids
  IN  [m2 EXCEPT !.active_clusters =
         [u \in DOMAIN m2.active_clusters |->
            IF u \in unmatched
            THEN markMissed(m2.active_clusters[u], timestamp)
            ELSE m2.active_clusters[u]]]

\* the possible outcomes of _processCategoryDetections
processCategoryOutcomes(m, scene_id, category, detections, timestamp) ==
  LET trackable_clusters == trackableClusters(m, scene_id, category)
      clusters == [i \in 1..Len(trackable_clusters) |->
                     m.active_clusters[trackable_clusters[i]]]
  IN  {processCategoryDetections(m, scene_id, category, detections, timestamp, matches) :
         matches \in match(clusters, detections)}

\* the loop over detections_by_category.items(), on a set of memories
RECURSIVE processCategories(_, _, _, _, _)
processCategories(ms, scene_id, categories, new_cluster_detections, timestamp) ==
  IF categories = <<>> THEN ms
  ELSE processCategories(
         UNION {processCategoryOutcomes(m, scene_id, Head(categories),
                  categoryDetections(new_cluster_detections, Head(categories)), timestamp) :
                m \in ms},
         scene_id, Tail(categories), new_cluster_detections, timestamp)

\* a slip _validateAllClustersInScene could have: LOST clusters are not skipped
validateAllClustersInScene_noSkipLost(m, scene_id, timestamp) ==
  LET all_scene_clusters == getClustersByScene(m, scene_id)
      InScene(u) == \E i \in 1..Len(all_scene_clusters) : all_scene_clusters[i] = u
  IN  [m EXCEPT !.active_clusters =
         [u \in DOMAIN m.active_clusters |->
            IF /\ InScene(u)
               /\ m.active_clusters[u].last_updated < timestamp
            THEN markMissed(m.active_clusters[u], timestamp)
            ELSE m.active_clusters[u]]]

\* a slip _validateAllClustersInScene could have: last_updated is not
\* compared with the timestamp
validateAllClustersInScene_noTimeCheck(m, scene_id, timestamp) ==
  LET all_scene_clusters == getClustersByScene(m, scene_id)
      InScene(u) == \E i \in 1..Len(all_scene_clusters) : all_scene_clusters[i] = u
  IN  [m EXCEPT !.active_clusters =
         [u \in DOMAIN m.active_clusters |->
            IF InScene(u) /\ m.active_clusters[u].state # S_LOST
            THEN markMissed(m.active_clusters[u], timestamp)
            ELSE m.active_clusters[u]]]

validateAllClustersInScene(m, scene_id, timestamp) ==
  LET all_scene_clusters == getClustersByScene(m, scene_id)
      InScene(u) == \E i \in 1..Len(all_scene_clusters) : all_scene_clusters[i] = u
  IN  [m EXCEPT !.active_clusters =
         [u \in DOMAIN m.active_clusters |->
            IF /\ InScene(u)
               /\ m.active_clusters[u].state # S_LOST
               /\ m.active_clusters[u].last_updated < timestamp
            THEN markMissed(m.active_clusters[u], timestamp)
            ELSE m.active_clusters[u]]]

\* the possible memories after processNewDetections
processNewDetections(m, scene_id, new_cluster_detections, timestamp) ==
  {cleanupOldClusters(validateAllClustersInScene(x, scene_id, timestamp), timestamp) :
     x \in processCategories({m}, scene_id, groupByCategory(new_cluster_detections),
                             new_cluster_detections, timestamp)}

\* the possible memories processNewDetections leaves when the processing of
\* the k-th category raises before it has changed anything (the matcher
\* raises): the categories before it have been processed, the validation
\* pass and the cleanup have not run
processNewDetectionsRaises(m, scene_id, new_cluster_detections, timestamp, k) ==
  processCategories({m}, scene_id,
                    SubSeq(groupByCategory(new_cluster_detections), 1, k - 1),
                    new_cluster_detections, timestamp)

\* a slip getActiveClusters could have: publishable_only is not looked at
getActiveClusters_noStateFilter(m, scene_id, publishable_only) ==
  LET Keep(u) == m.active_clusters[u].state # S_LOST
  IN  SelectSeq(getClustersByScene(m, scene_id), Keep)

\* getActiveClusters(scene_id, publishable_only) with a scene: uuids in order
getActiveClusters(m, scene_id, publishable_only) ==
  LET Keep(u) ==
        /\ m.active_clusters[u].state # S_LOST
        /\ ~(publishable_only
             /\ m.active_clusters[u].state \notin {S_ACTIVE, S_STABLE, S_FADING})
  IN  SelectSeq(getClustersByScene(m, scene_id), Keep)

\* toDict: the fields of the published dictionary that the model keeps
toDict(c) ==
  [id |-> c.uuid, category |-> c.category, objects_count |-> c.object_count,
   center_of_mass |-> c.centroid,
   tracking |-> [tracking_id |-> c.uuid, state |-> c.state,
                 frames_detected |-> c.frames_detected,
                 frames_missed |-> c.frames_missed]]

-----------------------------------------------------------------------------
(* ClusterAnalyticsContext: the DBSCAN parameters of a scene and category. *)
(* eps is in tenths.                                                       *)

\* str.lower() on the categories of the model
lower(category) == IF category = "Person" THEN "person" ELSE category

\* ClusterAnalyticsConfig without a configuration entry: eps 1, in tenths
DEFAULT_DBSCAN_EPS == 10

DEFAULT_DBSCAN_MIN_SAMPLES == 3

\* dbscan.category_specific of the configuration: here an entry for
\* vehicles, eps 2.0 and 2 samples, and none for the other categories
CATEGORY_DBSCAN_PARAMS == [c \in {"vehicle"} |-> [eps |-> 20, min_samples |-> 2]]

\* the 0.1 of max(current eps, 0.1), in tenths
EPS_FLOOR == 1

\* no scene has user-configured parameters
NoUserParams == [s \in Scenes |-> <<>>]

\* getDbscanParamsForCategory looking the category up as it is written
getDbscanParamsForCategory_noLower(user, category, scene_id) ==
  IF category \in DOMAIN user[scene_id]
  THEN user[scene_id][category]
  ELSE IF category \in DOMAIN CATEGORY_DBSCAN_PARAMS
  THEN CATEGORY_DBSCAN_PARAMS[category]
  ELSE [eps |-> DEFAULT_DBSCAN_EPS, min_samples |-> DEFAULT_DBSCAN_MIN_SAMPLES]

getDbscanParamsForCategory(user, category, scene_id) ==
  LET category_lower == lower(category)
  IN  IF category_lower \in DOMAIN user[scene_id]
      THEN user[scene_id][category_lower]
      ELSE IF category_lower \in DOMAIN CATEGORY_DBSCAN_PARAMS
      THEN CATEGORY_DBSCAN_PARAMS[category_lower]
      ELSE [eps |-> DEFAULT_DBSCAN_EPS, min_samples |-> DEFAULT_DBSCAN_MIN_SAMPLES]

getDefaultDbscanParamsForCategory(category) ==
  LET category_lower == lower(category)
  IN  IF category_lower \in DOMAIN CATEGORY_DBSCAN_PARAMS
      THEN CATEGORY_DBSCAN_PARAMS[category_lower]
      ELSE [eps |-> DEFAULT_DBSCAN_EPS, min_samples |-> DEFAULT_DBSCAN_MIN_SAMPLES]

\* eps_change_ratio > 0.5 or min_samples_changed
SignificantChange(current_params, new_params) ==
  \/ 2 * Abs(new_params.eps - current_params.eps) > Max(current_params.eps, EPS_FLOOR)
  \/ new_params.min_samples # current_params.min_samples

\* setUserDbscanParamsForCategory with a scene_id: the memory and the user
\* parameters afterwards
setUserDbscanParamsForCategory(m, user, category, eps, min_samples, scene_id) ==
  LET category_lower == lower(category)
      current_params == getDbscanParamsForCategory(user, category_lower, scene_id)
      new_params == [eps |-> eps, min_samples |-> min_samples]
  IN  [memory |-> IF SignificantChange(current_params, new_params)
                  THEN forceClearClustersByCategory(m, scene_id, category_lower)
                  ELSE m,
       user |-> [user EXCEPT ![scene_id] = Put(@, category_lower, new_params)]]

\* resetUserDbscanParamsForCategory with a scene_id: the memory and the
\* user parameters afterwards.  A scene left without an entry is deleted
\* from the table, which here is the scene with the empty dictionary
resetUserDbscanParamsForCategory(m, user, category, scene_id) ==
  LET category_lower == lower(category)
  IN  IF category_lower \in DOMAIN user[scene_id]
      THEN [memory |-> forceClearClustersByCategory(m, scene_id, category_lower),
            user |-> [user EXCEPT ![scene_id] = Drop(@, category_lower)]]
      ELSE [memory |-> m, user |-> user]

-----------------------------------------------------------------------------
(* controller: Tracking and its per-category worker threads, and the       *)
(* dropped-messages counter of observability.metrics                       *)

TrackCategories == {"person", "vehicle"}

\* a queue item (objects, when, already_tracked_objects, mode): objects is
\* the number of the trackObjects call the list came from; busy records
\* whether the worker had work it had not completed when the item was passed
\* to trackObjects
NoItem == [objects |-> 0, busy |-> FALSE]

\* the item join() puts: (None, None, None, STREAMING_MODE)
Sentinel == [objects |-> -1, busy |-> FALSE]

\* join() has not been called
\* join() has not been called; pending records, for each category join has
\* put the sentinel for, the items its worker had not finished at that moment
NoJoin == [pc |-> "idle", seen |-> {}, left |-> {}, cur |-> "none", pending |-> <<>>]

\* the calls whose items the worker has not finished: queued or in hand
PendingIds(t) ==
  {t.queue[i].objects : i \in 1..Len(t.queue)} \cup ({t.item.objects} \ {NoItem.objects})

\* Tracking.__init__ followed by start(): the thread is at queue.get()
\* all_tracker_objects and curObjects are lists of tracks, here the sets
\* of their ids: the tracks made of the objects of trackObjects call k have
\* id k.  aliased: the two attributes are one and the same list, as after
\* self.all_tracker_objects = self.curObjects = [].  retired: the ids of
\* the tracks the worker has retired
NewTracker ==
  [queue |-> <<>>, unfinished_tasks |-> 0,
   thread |-> "running", pc |-> "get", item |-> NoItem,
   all_tracker_objects |-> {}, curObjects |-> {}, aliased |-> TRUE,
   retired |-> {},
   handed |-> <<>>]

\* no worker, metrics.init() not called, no trackObjects call so far
TrackingInit ==
  /\ trackers = <<>>
  /\ metrics_instance = "none"
  /\ dropped = [c \in TrackCategories |-> 0]
  /\ call = [id |-> 0, categories |-> {}, use_tracker |-> TRUE]
  /\ joiner = NoJoin

\* metrics.init(): the instance exists afterwards, with its instruments only
\* if metrics are enabled; a second call is ignored
init(instance, enable_metrics) ==
  IF instance # "none" THEN instance
  ELSE IF enable_metrics THEN "enabled" ELSE "disabled"

\* a slip inc_dropped could have: the counter is added to whether it exists
\* or not
inc_dropped_always(instance, counter, category) ==
  [counter EXCEPT ![category] = @ + 1]

\* metrics.inc_dropped with counter_add: without an instance, or with an
\* instance that has no counter instrument, nothing is counted
inc_dropped(instance, counter, category) ==
  IF instance = "enabled"
  THEN [counter EXCEPT ![category] = @ + 1]
  ELSE counter

_createTrackers(ts, categories) ==
  [c \in DOMAIN ts \cup categories |->
     IF c \in DOMAIN ts THEN ts[c] ELSE NewTracker]

\* the worker has an item it has not finished: queued, or taken and not yet
\* marked done
HasUnfinishedWork(t) == t.queue # <<>> \/ t.item # NoItem

\* the body of the loop of trackObjects for one category, on the pair of the
\* trackers and the counter
trackObjectsCategory(st, instance, category, id, use_tracker) ==
  LET t == st.trackers[category]
  IN  IF ~use_tracker
      THEN [st EXCEPT !.trackers[category].all_tracker_objects = {id},
                      !.trackers[category].curObjects = {id},
                      !.trackers[category].aliased = TRUE]
      ELSE IF t.queue # <<>>
      THEN [st EXCEPT !.dropped = inc_dropped(instance, st.dropped, category)]
      ELSE [st EXCEPT !.trackers[category].queue =
                         Append(t.queue, [objects |-> id, busy |-> HasUnfinishedWork(t)]),
                      !.trackers[category].unfinished_tasks = @ + 1]

\* the loop over the categories; each iteration touches its own worker only
RECURSIVE trackObjectsLoop(_, _, _, _, _)
trackObjectsLoop(st, instance, categories, id, use_tracker) ==
  IF categories = {} THEN st
  ELSE LET c == CHOOSE x \in categories : TRUE
       IN  trackObjectsLoop(trackObjectsCategory(st, instance, c, id, use_tracker),
                            instance, categories \ {c}, id, use_tracker)

\* the categories the loop of trackObjects runs over
effectiveCategories(ts, categories) ==
  IF categories = {} THEN DOMAIN ts ELSE categories

trackObjects(ts, counter, instance, categories, id, use_tracker) ==
  LET created == _createTrackers(ts, categories)
  IN  trackObjectsLoop([trackers |-> created, dropped |-> counter], instance,
                       effectiveCategories(created, categories), id, use_tracker)

\* trackCategory of the tracker subclass: the live tracks after a tracking
\* step on the objects of call id.  The tracks known before either all got
\* a measurement and live on, or had been silent for longer than their
\* non_measurement_time and are retired
trackCategory(all_tracker_objects, id, retires) ==
  (IF retires THEN {} ELSE all_tracker_objects) \cup {id}

\* curObjects of a worker as the list of its objects
curObjectsOf(ts, category) ==
  LET ids == SortedSeq(ts[category].curObjects)
  IN  [i \in 1..Len(ids) |-> [category |-> category, id |-> ids[i]]]

\* groupObjects filing every object under the category of the first one
groupObjects_firstCategory(objects) ==
  IF objects = <<>> THEN <<>>
  ELSE [k \in {objects[1].category} |-> objects]

\* groupObjects: a dictionary from category to the objects of that
\* category, in the order of the list.  The keys taken from
\* self.all_tracker_objects are those of the Tracking object the workers
\* belong to, whose list stays empty
groupObjects(objects) ==
  [k \in {objects[i].category : i \in 1..Len(objects)} |->
     LET Same(o) == o.category = k IN SelectSeq(objects, Same)]

\* category=None
None == "None"

\* cur_objects.extend(tracker.curObjects) over the categories, in the
\* order of the dictionary (here any order)
RECURSIVE extendCurObjects(_, _)
extendCurObjects(ts, categories) ==
  IF categories = {} THEN <<>>
  ELSE LET cat == CHOOSE x \in categories : TRUE
       IN  (IF cat \in DOMAIN ts THEN curObjectsOf(ts, cat) ELSE <<>>)
             \o extendCurObjects(ts, categories \ {cat})

currentObjects(ts, category) ==
  LET categories == IF category = None THEN DOMAIN ts ELSE {category}
      cur_objects == extendCurObjects(ts, categories)
  IN  IF category = None THEN groupObjects(cur_objects) ELSE cur_objects

-----------------------------------------------------------------------------
(* SpecFsm: one TrackedCluster object under arbitrary calls of update and  *)
(* markMissed.                                                             *)

\* bounds of SpecFsm
MaxFsmDetected == 21

MaxFsmMissed == 16

MaxFsmVariants == 1

FsmScene == "s1"

\* the detection repeated frame after frame, and one that differs from it in
\* position, size, shape and velocity
BaseDet ==
  [category |-> "person", center_of_mass |-> [x |-> 0, y |-> 0],
   shape |-> "circle", average_velocity |-> 0, objects_count |-> 3]

VariantDet ==
  [category |-> "person", center_of_mass |-> [x |-> 6, y |-> 0],
   shape |-> "line", average_velocity |-> 1, objects_count |-> 9]

FsmDets == {BaseDet, VariantDet}

FsmTimes == {0}

\* how many observations of the history came from VariantDet
Variants(c) == Cardinality({i \in 1..Len(c.history.shapes) : c.history.shapes[i] = VariantDet.shape})

FsmAllowed(c, det) == det = BaseDet \/ Variants(c) < MaxFsmVariants

FsmInit ==
  /\ tc = NoCluster
  /\ tc_calls = [update |-> 0, markMissed |-> 0, reset |-> 0]
  /\ active_clusters = EmptyMemory.active_clusters
  /\ archived_clusters = EmptyMemory.archived_clusters
  /\ clusters_by_scene = EmptyMemory.clusters_by_scene
  /\ clusters_by_category = EmptyMemory.clusters_by_category
  /\ next_uuid = EmptyMemory.next_uuid
  /\ user_dbscan_params_by_scene = NoUserParams
  /\ published = NoBatch
  /\ message = NoMessage
  /\ clock = 0
  /\ frames = 0
  /\ TrackingInit
  /\ matching = NoMatching
  /\ mqtt = MqttIdle
  /\ webui = WebIdle

TcCreate(det, ts) ==
  /\ tc = NoCluster
  /\ tc' = TrackedCluster(1, FsmScene, det, ts)
  /\ UNCHANGED <<ovars, tc_calls, cvars, kvars>>

TcUpdate(det, ts) ==
  /\ tc # NoCluster
  /\ tc.frames_detected < MaxFsmDetected
  /\ FsmAllowed(tc, det)
  /\ tc' = update(tc, det, ts)
  /\ tc_calls' = [tc_calls EXCEPT !.update = @ + 1, !.reset = @ + tc.frames_missed]
  /\ UNCHANGED <<ovars, cvars, kvars>>

TcMarkMissed(ts) ==
  /\ tc # NoCluster
  /\ tc.total_frames - tc.frames_detected < MaxFsmMissed
  /\ tc' = markMissed(tc, ts)
  /\ tc_calls' = [tc_calls EXCEPT !.markMissed = @ + 1]
  /\ UNCHANGED <<ovars, cvars, kvars>>

FsmNext ==
  \/ \E det \in FsmDets, ts \in FsmTimes : TcCreate(det, ts)
  \/ \E det \in FsmDets, ts \in FsmTimes : TcUpdate(det, ts)
  \/ \E ts \in FsmTimes : TcMarkMissed(ts)

SpecFsm == FsmInit /\ [][FsmNext]_vars

-----------------------------------------------------------------------------
(* SpecHistory: one TrackedCluster followed for more calls than its        *)
(* history holds observations.  The timestamp of a call is the number of   *)
(* calls before it, so that no two observations have the same timestamp.   *)

\* bounds of SpecHistory: the detections counted, the misses, and the
\* number of detections up to which any call may come
MaxHistDetected == 102

MaxHistMissed == 2

MaxHistEarly == 2

\* any call may come while the cluster is young and from the last call
\* before its history is full on; in between, the cluster is updated with
\* the same detection over and over
HistExplored ==
  \/ tc.frames_detected <= MaxHistEarly
  \/ tc.frames_detected >= MAX_HISTORY_SIZE - 1

HistCreate(det) ==
  /\ tc = NoCluster
  /\ tc' = TrackedCluster(1, FsmScene, det, 0)
  /\ UNCHANGED <<ovars, tc_calls, cvars, kvars>>

HistUpdate(det) ==
  /\ tc # NoCluster
  /\ tc.frames_detected < MaxHistDetected
  /\ det = BaseDet \/ HistExplored
  /\ tc' = update(tc, det, tc.total_frames)
  /\ tc_calls' = [tc_calls EXCEPT !.update = @ + 1, !.reset = @ + tc.frames_missed]
  /\ UNCHANGED <<ovars, cvars, kvars>>

HistMarkMissed ==
  /\ tc # NoCluster
  /\ tc.total_frames - tc.frames_detected < MaxHistMissed
  /\ HistExplored
  /\ tc' = markMissed(tc, tc.total_frames)
  /\ tc_calls' = [tc_calls EXCEPT !.markMissed = @ + 1]
  /\ UNCHANGED <<ovars, cvars, kvars>>

HistoryNext ==
  \/ \E det \in FsmDets : HistCreate(det)
  \/ \E det \in FsmDets : HistUpdate(det)
  \/ HistMarkMissed

SpecHistory == FsmInit /\ [][HistoryNext]_vars

-----------------------------------------------------------------------------
(* Spec: the cluster tracker of one ClusterAnalyticsContext under scene    *)
(* messages and forced clears.  DBSCAN is left out: a scene message is     *)
(* given by the cluster detections DBSCAN produced from it.                *)

\* bounds of Spec
MaxFrames == 21

MaxClusters == 3

MaxTime == 6

\* a second group of people, far from the first
FarDet ==
  [category |-> "person", center_of_mass |-> [x |-> 20, y |-> 0],
   shape |-> "circle", average_velocity |-> 0, objects_count |-> 3]

TrackerDets == {BaseDet, FarDet}

\* the detection lists of a scene message: no cluster or one
FrameDetections == {<<>>} \cup {<<d>> : d \in TrackerDets}

\* timestamps do not decrease; a message either carries the timestamp of the
\* one before or comes later than the archive threshold
FrameTimes == {t \in {clock, clock + ARCHIVE_TIME_THRESHOLD + 1} : t <= MaxTime}

\* a group that has stopped being detected is detected again only once its
\* cluster is FADING or LOST
DetectionExplored(scene_id, detection) ==
  \A u \in DOMAIN active_clusters :
    LET c == active_clusters[u]
    IN  (/\ c.scene_id = scene_id
         /\ c.category = detection.category
         /\ c.centroid = detection.center_of_mass
         /\ c.state # S_LOST)
        => (c.frames_missed = 0 \/ c.state = S_FADING)

\* the scene messages explored
FrameExplored(scene_id, detections, timestamp, sufficient) ==
  /\ frames < MaxFrames
  /\ next_uuid + Len(detections) <= MaxClusters + 1
  /\ ~sufficient => detections = <<>>
  /\ scene_id # "s1" => detections = <<>>
  /\ detections = <<>> => timestamp > clock
  /\ timestamp > clock => archived_clusters = <<>>
  /\ \A i \in 1..Len(detections) : DetectionExplored(scene_id, detections[i])

Memory ==
  [active_clusters |-> active_clusters,
   archived_clusters |-> archived_clusters,
   clusters_by_scene |-> clusters_by_scene,
   clusters_by_category |-> clusters_by_category,
   next_uuid |-> next_uuid]

SetMemory(m) ==
  /\ active_clusters' = m.active_clusters
  /\ archived_clusters' = m.archived_clusters
  /\ clusters_by_scene' = m.clusters_by_scene
  /\ clusters_by_category' = m.clusters_by_category
  /\ next_uuid' = m.next_uuid

\* the possible memories after analyzeObjectClusters; with too few objects
\* for clustering the tracker gets an empty list and there is no second
\* cleanup
analyzeObjectClusters(m, scene_id, raw_cluster_detections, timestamp, sufficient) ==
  IF ~sufficient
  THEN processNewDetections(m, scene_id, <<>>, timestamp)
  ELSE {cleanupOldClusters(x, timestamp) :
          x \in processNewDetections(m, scene_id, raw_cluster_detections, timestamp)}

\* the batch _publishTrackedClusters hands to client.publish
publishTrackedClusters(m, scene_id, timestamp, connected) ==
  IF ~connected THEN NoBatch
  ELSE LET tracked_clusters == getActiveClusters(m, scene_id, TRUE)
       IN  [scene_id |-> scene_id, timestamp |-> timestamp,
            clusters |-> [i \in 1..Len(tracked_clusters) |->
                            toDict(m.active_clusters[tracked_clusters[i]])]]

Init ==
  /\ tc = NoCluster
  /\ tc_calls = [update |-> 0, markMissed |-> 0, reset |-> 0]
  /\ active_clusters = EmptyMemory.active_clusters
  /\ archived_clusters = EmptyMemory.archived_clusters
  /\ clusters_by_scene = EmptyMemory.clusters_by_scene
  /\ clusters_by_category = EmptyMemory.clusters_by_category
  /\ next_uuid = EmptyMemory.next_uuid
  /\ user_dbscan_params_by_scene = NoUserParams
  /\ published = NoBatch
  /\ message = NoMessage
  /\ clock = 0
  /\ frames = 0
  /\ TrackingInit
  /\ matching = NoMatching
  /\ mqtt = MqttIdle
  /\ webui = WebIdle

ProcessSceneAnalytics(scene_id, detections, timestamp, sufficient, connected) ==
  /\ FrameExplored(scene_id, detections, timestamp, sufficient)
  /\ \E m \in analyzeObjectClusters(Memory, scene_id, detections, timestamp, sufficient) :
       /\ SetMemory(m)
       /\ published' = publishTrackedClusters(m, scene_id, timestamp, connected)
  /\ message' = [scene_id |-> scene_id, detections |-> detections,
                  timestamp |-> timestamp]
  /\ clock' = timestamp
  /\ frames' = frames + 1
  /\ UNCHANGED <<ovars, tc, tc_calls, user_dbscan_params_by_scene, kvars>>

ForceClearClustersByCategory(scene_id, category) ==
  /\ archived_clusters = <<>>
  /\ clock = 0
  /\ SetMemory(forceClearClustersByCategory(Memory, scene_id, category))
  /\ UNCHANGED <<ovars, tc, tc_calls, user_dbscan_params_by_scene, published, message,
                 clock, frames, kvars>>

Next ==
  \/ \E scene_id \in Scenes, detections \in FrameDetections, timestamp \in FrameTimes,
        sufficient \in BOOLEAN, connected \in BOOLEAN :
       ProcessSceneAnalytics(scene_id, detections, timestamp, sufficient, connected)
  \/ \E scene_id \in Scenes, category \in Categories :
       ForceClearClustersByCategory(scene_id, category)

Spec == Init /\ [][Next]_vars

-----------------------------------------------------------------------------
(* SpecMatch: HungarianMatcher.match applied to the trackable clusters and *)
(* the detections of one category, as _processCategoryDetections calls it  *)

\* bound of SpecMatch: the length of the two lists
MaxMatchLen == 2

\* detections of one category at x = 0, 10 and 13: 3 objects in a circle
\* or 7 in a line
MatchDets ==
  {[category |-> "person", center_of_mass |-> [x |-> x, y |-> 0],
    shape |-> k.shape, average_velocity |-> 0, objects_count |-> k.objects_count] :
     x \in {0, 10, 13},
     k \in {[shape |-> "circle", objects_count |-> 3],
            [shape |-> "line", objects_count |-> 7]}}

\* the detections the clusters of the list were created from
MatchClusterDets ==
  {d \in MatchDets : d.shape = "circle" /\ d.objects_count = 3}

SeqsUpTo(S, n) == UNION {[1..k -> S] : k \in 0..n}

\* the lists of clusters: each created from one detection at time 0, the
\* uuid of a cluster being 10 times its place in the list
MatchClusters ==
  {[i \in 1..Len(ds) |-> TrackedCluster(10 * i, "s1", ds[i], 0)] :
     ds \in SeqsUpTo(MatchClusterDets, MaxMatchLen)}

MatchInit ==
  /\ tc = NoCluster
  /\ tc_calls = [update |-> 0, markMissed |-> 0, reset |-> 0]
  /\ active_clusters = EmptyMemory.active_clusters
  /\ archived_clusters = EmptyMemory.archived_clusters
  /\ clusters_by_scene = EmptyMemory.clusters_by_scene
  /\ clusters_by_category = EmptyMemory.clusters_by_category
  /\ next_uuid = EmptyMemory.next_uuid
  /\ user_dbscan_params_by_scene = NoUserParams
  /\ published = NoBatch
  /\ message = NoMessage
  /\ clock = 0
  /\ frames = 0
  /\ TrackingInit
  /\ mqtt = MqttIdle
  /\ webui = WebIdle
  /\ \E existing_clusters \in MatchClusters,
        new_detections \in SeqsUpTo(MatchDets, MaxMatchLen) :
       matching = [done |-> FALSE, existing_clusters |-> existing_clusters,
                   new_detections |-> new_detections]

\* one call of match returns
Match ==
  /\ ~matching.done
  /\ \E r \in matchOutcomes(matching.existing_clusters, matching.new_detections) :
       matching' = [done |-> TRUE,
                    existing_clusters |-> matching.existing_clusters,
                    new_detections |-> matching.new_detections,
                    assignment |-> r.assignment, matches |-> r.matches]
  /\ UNCHANGED <<tc, tc_calls, cvars, kvars, mqtt, webui>>

MatchNext == Match

SpecMatch == MatchInit /\ [][MatchNext]_vars

-----------------------------------------------------------------------------
(* SpecContext: a ClusterAnalyticsContext with two scenes, categories that *)
(* differ in case, user-configured DBSCAN parameters and scene messages   *)
(* whose handling may raise.  SpecArchive: the same handlers under a       *)
(* stream of messages and parameter changes long enough to fill the       *)
(* archive.                                                               *)

\* the payload of the message is not JSON: json.loads raises
InvalidJson == -1

\* processSceneAnalytics without its except clauses: an exception leaves
\* the callback
processSceneAnalytics_noCatch(m, batch, scene_id, detections, timestamp, raises_at) ==
  IF raises_at = 0
  THEN {[memory |-> x,
         published |-> publishTrackedClusters(x, scene_id, timestamp, TRUE),
         escaped |-> FALSE] :
          x \in analyzeObjectClusters(m, scene_id, detections, timestamp, TRUE)}
  ELSE IF raises_at = InvalidJson
  THEN {[memory |-> m, published |-> batch, escaped |-> TRUE]}
  ELSE {[memory |-> x, published |-> batch, escaped |-> TRUE] :
          x \in processNewDetectionsRaises(m, scene_id, detections, timestamp, raises_at)}

\* processSceneAnalytics: the possible outcomes, each the memory and the
\* published batch afterwards and whether an exception left the callback.
\* With raises_at = InvalidJson json.loads raises before anything else is
\* done; with raises_at = k > 0 the processing of the k-th category raises.
\* Both except clauses log the exception, and the callback returns
processSceneAnalytics(m, batch, scene_id, detections, timestamp, raises_at) ==
  IF raises_at = 0
  THEN {[memory |-> x,
         published |-> publishTrackedClusters(x, scene_id, timestamp, TRUE),
         escaped |-> FALSE] :
          x \in analyzeObjectClusters(m, scene_id, detections, timestamp, TRUE)}
  ELSE IF raises_at = InvalidJson
  THEN {[memory |-> m, published |-> batch, escaped |-> FALSE]}
  ELSE {[memory |-> x, published |-> batch, escaped |-> FALSE] :
          x \in processNewDetectionsRaises(m, scene_id, detections, timestamp, raises_at)}

\* the handling of one scene message, whatever the message
SceneMessage(scene_id, detections, timestamp, raises_at) ==
  /\ \E r \in processSceneAnalytics(Memory, published, scene_id, detections,
                                    timestamp, raises_at) :
       /\ SetMemory(r.memory)
       /\ published' = r.published
       /\ message' = [scene_id |-> scene_id, detections |-> detections,
                       timestamp |-> timestamp, raises_at |-> raises_at,
                       escaped |-> r.escaped]
  /\ clock' = timestamp
  /\ frames' = frames + 1
  /\ UNCHANGED <<ovars, tc, tc_calls, user_dbscan_params_by_scene, kvars>>

\* one call of setUserDbscanParamsForCategory, whatever its arguments
SetUserDbscanParamsForCategory(category, eps, min_samples, scene_id) ==
  /\ LET r == setUserDbscanParamsForCategory(Memory, user_dbscan_params_by_scene,
                                              category, eps, min_samples, scene_id)
     IN  /\ SetMemory(r.memory)
         /\ user_dbscan_params_by_scene' = r.user
  /\ message' = [scene_id |-> scene_id, category |-> category, eps |-> eps,
                  min_samples |-> min_samples]
  /\ UNCHANGED <<ovars, tc, tc_calls, published, clock, frames, kvars>>

\* one call of resetUserDbscanParamsForCategory, whatever its arguments
ResetUserDbscanParamsForCategory(category, scene_id) ==
  /\ LET r == resetUserDbscanParamsForCategory(Memory, user_dbscan_params_by_scene,
                                                category, scene_id)
     IN  /\ SetMemory(r.memory)
         /\ user_dbscan_params_by_scene' = r.user
  /\ message' = [scene_id |-> scene_id, category |-> category, reset |-> TRUE]
  /\ UNCHANGED <<ovars, tc, tc_calls, published, clock, frames, kvars>>

\* bound of SpecContext
MaxCtxFrames == 2

CapDet ==
  [category |-> "Person", center_of_mass |-> [x |-> 0, y |-> 0],
   shape |-> "circle", average_velocity |-> 0, objects_count |-> 3]

VehicleDet ==
  [category |-> "vehicle", center_of_mass |-> [x |-> 0, y |-> 0],
   shape |-> "circle", average_velocity |-> 0, objects_count |-> 3]

\* the detection lists of the scene messages: one cluster, or one of each of
\* two categories
CtxDetections ==
  {<<BaseDet>>, <<CapDet>>, <<VehicleDet>>, <<BaseDet, VehicleDet>>}

\* the parameters set: eps 1.0, 1.4 and 3.0 with 3 samples, eps 1.0 with 4
CtxParams ==
  {[eps |-> 10, min_samples |-> 3], [eps |-> 14, min_samples |-> 3],
   [eps |-> 30, min_samples |-> 3], [eps |-> 10, min_samples |-> 4]}

\* the categories parameters are set for
CtxCategories == {"person", "Person"}

CtxMessage(scene_id, detections, raises_at) ==
  /\ frames < MaxCtxFrames
  /\ raises_at <= Len(groupByCategory(detections))
  /\ SceneMessage(scene_id, detections, clock + 1, raises_at)

CtxSetParams(category, eps, min_samples, scene_id) ==
  SetUserDbscanParamsForCategory(category, eps, min_samples, scene_id)

ContextNext ==
  \/ \E scene_id \in Scenes, detections \in CtxDetections, raises_at \in 0..2 :
       CtxMessage(scene_id, detections, raises_at)
  \/ \E scene_id \in Scenes : CtxMessage(scene_id, <<>>, InvalidJson)
  \/ \E category \in CtxCategories, params \in CtxParams, scene_id \in Scenes :
       CtxSetParams(category, params.eps, params.min_samples, scene_id)

SpecContext == Init /\ [][ContextNext]_vars

\* bound of SpecParams: the scene messages
MaxParFrames == 1

\* the parameters set: eps 1.4 and 3.0 with 3 samples
ParParams == {[eps |-> 14, min_samples |-> 3], [eps |-> 30, min_samples |-> 3]}

ParMessage(scene_id, detections) ==
  /\ frames < MaxParFrames
  /\ SceneMessage(scene_id, detections, clock + 1, 0)

\* SpecParams: the parameter table of a context under calls that set and
\* reset the parameters of every category, written in either case, in
\* both scenes, with a scene message in between
ParamsNext ==
  \/ \E scene_id \in Scenes, detections \in {<<BaseDet>>, <<BaseDet, VehicleDet>>} :
       ParMessage(scene_id, detections)
  \/ \E category \in Categories, params \in ParParams, scene_id \in Scenes :
       SetUserDbscanParamsForCategory(category, params.eps, params.min_samples,
                                      scene_id)
  \/ \E category \in Categories, scene_id \in Scenes :
       ResetUserDbscanParamsForCategory(category, scene_id)

SpecParams == Init /\ [][ParamsNext]_vars

\* bound of SpecArchive: the clusters created
MaxArcClusters == 52

\* eps 1.0 and 3.0: every change from one to the other is significant
ArcEps == {10, 30}

\* a message with the one group of people, a second later than the one
\* before, sent when the scene has no cluster
ArcMessage ==
  /\ next_uuid <= MaxArcClusters
  /\ getClustersByScene(Memory, "s1") = <<>>
  /\ SceneMessage("s1", <<BaseDet>>, clock + 1, 0)

ArcSetParams(eps) ==
  SetUserDbscanParamsForCategory("person", eps, DEFAULT_DBSCAN_MIN_SAMPLES, "s1")

ArchiveNext ==
  \/ ArcMessage
  \/ \E eps \in ArcEps : ArcSetParams(eps)

SpecArchive == Init /\ [][ArchiveNext]_vars

-----------------------------------------------------------------------------
(* SpecFrames: the tracker under scene messages that carry up to two       *)
(* cluster detections of one category, in either scene, each message a     *)
(* second later than the one before.                                       *)

\* bound of SpecFrames: the scene messages
MaxFrmFrames == 3

\* the two groups of people: too far apart for one to match the cluster of
\* the other
FrmDets == {BaseDet, FarDet}

FrmMessage(scene_id, detections) ==
  /\ frames < MaxFrmFrames
  /\ SceneMessage(scene_id, detections, clock + 1, 0)

FramesNext ==
  \E scene_id \in Scenes, detections \in SeqsUpTo(FrmDets, 2) :
    FrmMessage(scene_id, detections)

SpecFrames == Init /\ [][FramesNext]_vars

-----------------------------------------------------------------------------
(* SpecLoss: a group of people is detected in scene s1 frame after frame   *)
(* and then no more; the messages of the scene keep arriving, each a       *)
(* second later than the one before.                                       *)

\* bounds of SpecLoss: the messages that detect the group, and the misses
\* of its cluster up to which messages without it arrive
MaxLossDetected == 20

MaxLossMissed == 17

\* the uuid of the cluster of the group: the first one handed out
LossCluster == 1

\* the group has not been missing from a message so far
StillDetected == IF message = NoMessage THEN TRUE ELSE message.detections # <<>>

\* a message with the group
LossDetected ==
  /\ StillDetected
  /\ frames < MaxLossDetected
  /\ SceneMessage("s1", <<BaseDet>>, clock + 1, 0)

\* a message without it
LossMissed ==
  /\ DOMAIN active_clusters # {}
  /\ \A u \in DOMAIN active_clusters : active_clusters[u].frames_missed < MaxLossMissed
  /\ SceneMessage("s1", <<>>, clock + 1, 0)

LossNext == LossDetected \/ LossMissed

SpecLoss == Init /\ [][LossNext]_vars

\* the step of LossNext, by its guards and its count of the messages
LossArrives ==
  /\ \/ StillDetected /\ frames < MaxLossDetected
     \/ /\ DOMAIN active_clusters # {}
        /\ \A u \in DOMAIN active_clusters :
             active_clusters[u].frames_missed < MaxLossMissed
  /\ frames' = frames + 1

\* the messages of the scene keep arriving
SpecLossFair == SpecLoss /\ WF_frames(LossArrives)

-----------------------------------------------------------------------------
(* SpecCrowd: every scene message carries groups of people that no          *)
(* earlier message has shown, in either scene.                             *)

\* bound of SpecCrowd: the clusters created
MaxCrowdClusters == 11

\* the distance between two groups: too far for a match
CrowdSpacing == 20

\* the k-th group
CrowdDet(k) == [BaseDet EXCEPT !.center_of_mass.x = CrowdSpacing * k]

\* a message with n groups; the first message of a scene shows any number
\* of groups, a later one shows one
CrowdMessage(scene_id, n) ==
  /\ next_uuid + n <= MaxCrowdClusters + 1
  /\ n = 1 \/ getClustersByScene(Memory, scene_id) = <<>>
  /\ SceneMessage(scene_id, [i \in 1..n |-> CrowdDet(next_uuid + i - 1)], clock + 1, 0)

CrowdNext ==
  \E scene_id \in Scenes, n \in 1..MaxCrowdClusters : CrowdMessage(scene_id, n)

SpecCrowd == Init /\ [][CrowdNext]_vars

-----------------------------------------------------------------------------
(* SpecMemory: the cluster memory under the messages of two scenes with    *)
(* groups of two categories and under forced clears, followed by messages  *)
(* without groups until the clusters that were active are lost and         *)
(* archived.                                                               *)

\* bounds of SpecMemory: the messages that may show groups, and all messages
MaxMemDetected == 3

MaxMemFrames == 37

\* the detection lists of the messages: people, or people and vehicles
MemDetections == {<<BaseDet>>, <<BaseDet, VehicleDet>>}

\* one of the first messages: either scene, with groups
MemMessage(scene_id, detections) ==
  /\ frames < MaxMemDetected
  /\ SceneMessage(scene_id, detections, clock + 1, 0)

\* the clusters of a scene and category are cleared, between two of the
\* first messages
MemForceClear(scene_id, category) ==
  /\ frames < MaxMemDetected
  /\ forceClearClustersByCategory(Memory, scene_id, category) # Memory
  /\ SetMemory(forceClearClustersByCategory(Memory, scene_id, category))
  /\ message' = [scene_id |-> scene_id, category |-> category]
  /\ UNCHANGED <<ovars, tc, tc_calls, user_dbscan_params_by_scene, published,
                 clock, frames, kvars>>

\* afterwards the two scenes send messages without groups, in turn
MemSilence ==
  /\ frames >= MaxMemDetected
  /\ frames < MaxMemFrames
  /\ SceneMessage(IF frames % 2 = 0 THEN "s1" ELSE "s2", <<>>, clock + 1, 0)

MemoryNext ==
  \/ \E scene_id \in Scenes, detections \in MemDetections :
       MemMessage(scene_id, detections)
  \/ \E scene_id \in Scenes, category \in Categories :
       MemForceClear(scene_id, category)
  \/ MemSilence

SpecMemory == Init /\ [][MemoryNext]_vars

-----------------------------------------------------------------------------
(* SpecThreads: a context with its WebUI.  The MQTT loop runs             *)
(* processSceneAnalytics in the main thread, the WebUI server runs the    *)
(* handlers of its events in the thread WebUI.runInThread starts; neither *)
(* takes a lock before it reads or writes the parameter table and the     *)
(* cluster memory, so the steps of the two interleave.                    *)

\* bound of SpecThreads: the scene messages
MaxThrFrames == 2

\* bound of SpecThreads: the parameter updates of the WebUI client
MaxThrUpdates == 2

\* the parameters the WebUI client sends: a significant change and none
ThrParams == {[eps |-> 14, min_samples |-> 3], [eps |-> 30, min_samples |-> 3]}

\* processSceneAnalytics: a message of a scene has arrived and is parsed;
\* the analyzeObjectClusters of the WebUI hook stores its objects in
\* WebUI.sceneData and sends them to the clients
MqttReceive(scene_id, detections) ==
  /\ mqtt.pc = "idle"
  /\ frames < MaxThrFrames
  /\ mqtt' = [pc |-> "analyze", scene_id |-> scene_id, detections |-> detections,
              timestamp |-> clock + 1]
  /\ webui' = [webui EXCEPT !.sceneData[scene_id] = detections]
  /\ clock' = clock + 1
  /\ frames' = frames + 1
  /\ message' = [scene_id |-> scene_id, detections |-> detections,
                  timestamp |-> clock + 1]
  /\ UNCHANGED <<tc, tc_calls, active_clusters, archived_clusters, clusters_by_scene,
                 clusters_by_category, next_uuid, user_dbscan_params_by_scene,
                 published, kvars, matching>>

\* processSceneAnalytics: analyzeObjectClusters clusters the objects with
\* the parameters of the table and hands the clusters to the tracker
MqttAnalyze ==
  /\ mqtt.pc = "analyze"
  /\ \E m \in analyzeObjectClusters(Memory, mqtt.scene_id, mqtt.detections,
                                     mqtt.timestamp, TRUE) : SetMemory(m)
  /\ mqtt' = [mqtt EXCEPT !.pc = "publish"]
  /\ UNCHANGED <<tc, tc_calls, user_dbscan_params_by_scene, published, message,
                 clock, frames, kvars, matching, webui>>

\* processSceneAnalytics: _publishTrackedClusters reads the clusters of the
\* scene and publishes them
MqttPublish ==
  /\ mqtt.pc = "publish"
  /\ published' = publishTrackedClusters(Memory, mqtt.scene_id, mqtt.timestamp, TRUE)
  /\ mqtt' = [mqtt EXCEPT !.pc = "report"]
  /\ UNCHANGED <<tc, tc_calls, active_clusters, archived_clusters, clusters_by_scene,
                 clusters_by_category, next_uuid, user_dbscan_params_by_scene,
                 message, clock, frames, kvars, matching, webui>>

\* processSceneAnalytics: the publishAllClusters of the WebUI hook reads
\* the clusters of the scene once more for the clients, and the callback
\* returns
MqttReturn ==
  /\ mqtt.pc = "report"
  /\ mqtt' = MqttIdle
  /\ UNCHANGED <<tc, tc_calls, cvars, kvars, matching, webui>>

\* handleUpdateClusteringConfig: the client has sent parameters for a
\* category of the selected scene; setUserDbscanParamsForCategory
WebSetParams(category, eps, min_samples, scene_id) ==
  /\ webui.pc = "idle"
  /\ webui.updates < MaxThrUpdates
  /\ LET r == setUserDbscanParamsForCategory(Memory, user_dbscan_params_by_scene,
                                              category, eps, min_samples, scene_id)
     IN  /\ SetMemory(r.memory)
         /\ user_dbscan_params_by_scene' = r.user
  /\ webui' = [webui EXCEPT !.pc = "recluster", !.scene_id = scene_id,
                            !.updates = @ + 1]
  /\ UNCHANGED <<tc, tc_calls, published, message, clock, frames, kvars, matching,
                 mqtt>>

\* handleUpdateClusteringConfig: if the scene has sent objects they are
\* clustered again at once, with the time of the call as timestamp
\* (sceneData has no timestamp of its own), and the handler returns
WebRecluster(timestamp) ==
  /\ webui.pc = "recluster"
  /\ IF webui.sceneData[webui.scene_id] = "none"
     THEN /\ timestamp = clock
          /\ UNCHANGED <<active_clusters, archived_clusters, clusters_by_scene,
                         clusters_by_category, next_uuid>>
     ELSE \E m \in analyzeObjectClusters(Memory, webui.scene_id,
                                         webui.sceneData[webui.scene_id],
                                         timestamp, TRUE) : SetMemory(m)
  /\ clock' = timestamp
  /\ webui' = [webui EXCEPT !.pc = "idle", !.scene_id = "none"]
  /\ UNCHANGED <<tc, tc_calls, user_dbscan_params_by_scene, published, message,
                 frames, kvars, matching, mqtt>>

ThreadsNext ==
  \/ \E scene_id \in Scenes, detections \in {<<BaseDet>>, <<CapDet>>} :
       MqttReceive(scene_id, detections)
  \/ MqttAnalyze
  \/ MqttPublish
  \/ MqttReturn
  \/ \E category \in CtxCategories, params \in ThrParams, scene_id \in Scenes :
       WebSetParams(category, params.eps, params.min_samples, scene_id)
  \/ \E timestamp \in {clock, clock + 1} : WebRecluster(timestamp)

SpecThreads == Init /\ [][ThreadsNext]_vars

-----------------------------------------------------------------------------
(* SpecTracking: one Tracking object, its producer calling trackObjects,   *)
(* and the worker threads running Tracking.run                             *)

\* bound of SpecTracking
MaxCalls == 2

TrackingSpecInit ==
  /\ tc = NoCluster
  /\ tc_calls = [update |-> 0, markMissed |-> 0, reset |-> 0]
  /\ active_clusters = EmptyMemory.active_clusters
  /\ archived_clusters = EmptyMemory.archived_clusters
  /\ clusters_by_scene = EmptyMemory.clusters_by_scene
  /\ clusters_by_category = EmptyMemory.clusters_by_category
  /\ next_uuid = EmptyMemory.next_uuid
  /\ user_dbscan_params_by_scene = NoUserParams
  /\ published = NoBatch
  /\ message = NoMessage
  /\ clock = 0
  /\ frames = 0
  /\ TrackingInit
  /\ matching = NoMatching
  /\ mqtt = MqttIdle
  /\ webui = WebIdle

MetricsInit(enable_metrics) ==
  /\ metrics_instance' = init(metrics_instance, enable_metrics)
  /\ UNCHANGED <<ovars, trackers, dropped, call, joiner, tc, tc_calls, cvars>>

TrackObjects(categories, use_tracker) ==
  /\ call.id < MaxCalls
  /\ LET st == trackObjects(trackers, dropped, metrics_instance, categories,
                            call.id + 1, use_tracker)
     IN  /\ trackers' = st.trackers
         /\ dropped' = st.dropped
         /\ call' = [id |-> call.id + 1,
                     categories |-> effectiveCategories(st.trackers, categories),
                     use_tracker |-> use_tracker]
  /\ UNCHANGED <<ovars, metrics_instance, joiner, tc, tc_calls, cvars>>

\* run: queue.get() returns an item
WorkerGet(c) ==
  /\ c \in DOMAIN trackers
  /\ trackers[c].thread = "running"
  /\ trackers[c].pc = "get"
  /\ trackers[c].queue # <<>>
  /\ trackers' = [trackers EXCEPT ![c].item = Head(trackers[c].queue),
                                  ![c].queue = Tail(trackers[c].queue),
                                  ![c].pc = "track"]
  /\ UNCHANGED <<ovars, metrics_instance, dropped, call, joiner, tc, tc_calls, cvars>>

\* run: trackCategory is called with the item and returns; the working
\* collection, a new list, now holds the live tracks
WorkerTrack(c, retires) ==
  /\ c \in DOMAIN trackers
  /\ trackers[c].thread = "running"
  /\ trackers[c].pc = "track"
  /\ trackers[c].item # Sentinel
  /\ retires => trackers[c].all_tracker_objects \ {trackers[c].item.objects} # {}
  /\ LET live == trackCategory(trackers[c].all_tracker_objects,
                               trackers[c].item.objects, retires)
     IN  trackers' = [trackers EXCEPT
                        ![c].handed = Append(@, trackers[c].item),
                        ![c].retired = @ \cup (trackers[c].all_tracker_objects \ live),
                        ![c].all_tracker_objects = live,
                        ![c].aliased = FALSE,
                        ![c].pc = "publish"]
  /\ UNCHANGED <<ovars, metrics_instance, dropped, call, joiner, tc, tc_calls, cvars>>

\* run: trackCategory is called with the item and raises; nothing in run
\* catches it, the thread ends without task_done, and the working collection
\* may or may not have been changed
WorkerTrackRaises(c, changed) ==
  /\ c \in DOMAIN trackers
  /\ trackers[c].thread = "running"
  /\ trackers[c].pc = "track"
  /\ trackers[c].item # Sentinel
  /\ LET live == IF changed
                 THEN trackCategory(trackers[c].all_tracker_objects,
                                    trackers[c].item.objects, TRUE)
                 ELSE trackers[c].all_tracker_objects
     IN  trackers' = [trackers EXCEPT
                        ![c].handed = Append(@, trackers[c].item),
                        ![c].retired = @ \cup (trackers[c].all_tracker_objects \ live),
                        ![c].all_tracker_objects = live,
                        ![c].aliased = IF changed THEN FALSE ELSE @,
                        ![c].thread = "raised"]
  /\ UNCHANGED <<ovars, metrics_instance, dropped, call, joiner, tc, tc_calls, cvars>>

\* run: curObjects becomes a copy of the working collection, then task_done
WorkerPublish(c) ==
  /\ c \in DOMAIN trackers
  /\ trackers[c].thread = "running"
  /\ trackers[c].pc = "publish"
  /\ trackers' = [trackers EXCEPT
                    ![c].curObjects = trackers[c].all_tracker_objects,
                    ![c].aliased = FALSE,
                    ![c].unfinished_tasks = @ - 1,
                    ![c].item = NoItem,
                    ![c].pc = "get"]
  /\ UNCHANGED <<ovars, metrics_instance, dropped, call, joiner, tc, tc_calls, cvars>>

\* run: the item is the sentinel (objects is None): task_done, break, and
\* the thread ends
WorkerRetire(c) ==
  /\ c \in DOMAIN trackers
  /\ trackers[c].thread = "running"
  /\ trackers[c].pc = "track"
  /\ trackers[c].item = Sentinel
  /\ trackers' = [trackers EXCEPT
                    ![c].unfinished_tasks = @ - 1,
                    ![c].item = NoItem,
                    ![c].thread = "exited"]
  /\ UNCHANGED <<ovars, metrics_instance, dropped, call, joiner, tc, tc_calls, cvars>>

\* join: the loop over self.trackers starts; the dictionary iterator
\* remembers the size of the dictionary.  join is called once
JoinBegin ==
  /\ joiner.pc = "idle"
  /\ joiner' = [pc |-> "next", seen |-> DOMAIN trackers, left |-> DOMAIN trackers,
                cur |-> "none", pending |-> <<>>]
  /\ UNCHANGED <<ovars, trackers, metrics_instance, dropped, call, tc, tc_calls, cvars>>

\* join: the next category of the loop (the order of the dictionary is the
\* order in which the callers of trackObjects listed the categories, here
\* any order); the sentinel is put into the queue of its worker
JoinPut(c) ==
  /\ joiner.pc = "next"
  /\ DOMAIN trackers = joiner.seen
  /\ c \in joiner.left
  /\ trackers' = [trackers EXCEPT ![c].queue = Append(@, Sentinel),
                                  ![c].unfinished_tasks = @ + 1]
  /\ joiner' = [joiner EXCEPT !.pc = "wait", !.cur = c,
                              !.pending = @ @@ (c :> PendingIds(trackers[c]))]
  /\ UNCHANGED <<ovars, metrics_instance, dropped, call, tc, tc_calls, cvars>>

\* a slip join could have: it goes on to the next category without waiting
JoinWaitForComplete_noWait ==
  /\ joiner.pc = "wait"
  /\ joiner' = [joiner EXCEPT !.pc = "next", !.left = @ \ {joiner.cur},
                              !.cur = "none"]
  /\ UNCHANGED <<ovars, trackers, metrics_instance, dropped, call, tc, tc_calls, cvars>>

\* join: waitForComplete, that is queue.join(), returns once every item put
\* into the queue has been marked done; tracker.join() is Tracking.join of
\* the worker, whose own trackers dictionary is empty, and returns at once
JoinWaitForComplete ==
  /\ joiner.pc = "wait"
  /\ trackers[joiner.cur].unfinished_tasks = 0
  /\ joiner' = [joiner EXCEPT !.pc = "next", !.left = @ \ {joiner.cur},
                              !.cur = "none"]
  /\ UNCHANGED <<ovars, trackers, metrics_instance, dropped, call, tc, tc_calls, cvars>>

\* join: a trackObjects call has added a worker since the loop started; the
\* dictionary iterator raises RuntimeError
JoinRaises ==
  /\ joiner.pc = "next"
  /\ DOMAIN trackers # joiner.seen
  /\ joiner' = [joiner EXCEPT !.pc = "raised"]
  /\ UNCHANGED <<ovars, trackers, metrics_instance, dropped, call, tc, tc_calls, cvars>>

\* join: the loop is over and join returns
JoinReturn ==
  /\ joiner.pc = "next"
  /\ DOMAIN trackers = joiner.seen
  /\ joiner.left = {}
  /\ joiner' = [joiner EXCEPT !.pc = "done"]
  /\ UNCHANGED <<ovars, trackers, metrics_instance, dropped, call, tc, tc_calls, cvars>>

TrackingNext ==
  \/ \E enable_metrics \in BOOLEAN : MetricsInit(enable_metrics)
  \/ \E categories \in SUBSET TrackCategories, use_tracker \in BOOLEAN :
       TrackObjects(categories, use_tracker)
  \/ \E c \in TrackCategories : WorkerGet(c)
  \/ \E c \in TrackCategories, retires \in BOOLEAN : WorkerTrack(c, retires)
  \/ \E c \in TrackCategories, changed \in BOOLEAN : WorkerTrackRaises(c, changed)
  \/ \E c \in TrackCategories : WorkerPublish(c)
  \/ \E c \in TrackCategories : WorkerRetire(c)
  \/ JoinBegin
  \/ \E c \in TrackCategories : JoinPut(c)
  \/ JoinWaitForComplete
  \/ JoinRaises
  \/ JoinReturn

SpecTracking == TrackingSpecInit /\ [][TrackingNext]_vars

\* the worker threads and the thread inside join() are scheduled again and
\* again: a step of run or of join that stays possible is taken.  Whether
\* trackCategory returns or raises is not a matter of scheduling
WorkerStep(c) ==
  \/ WorkerGet(c)
  \/ \E retires \in BOOLEAN : WorkerTrack(c, retires)
  \/ WorkerPublish(c)
  \/ WorkerRetire(c)

JoinStep ==
  \/ \E c \in TrackCategories : JoinPut(c)
  \/ JoinWaitForComplete
  \/ JoinRaises
  \/ JoinReturn

SpecTrackingFair ==
  /\ SpecTracking
  /\ \A c \in TrackCategories : WF_vars(WorkerStep(c))
  /\ WF_vars(JoinStep)

-----------------------------------------------------------------------------
(* Claims on the lifecycle FSM (SpecFsm) *)

\* C1, as stated: after any sequence of update and markMissed calls,
\* frames_detected + frames_missed = total_frames.
C1_SumEqualsTotal ==
  tc # NoCluster => tc.frames_detected + tc.frames_missed = tc.total_frames

\* C1, amended: frames_detected + frames_missed equals total_frames minus the
\* misses that updates have reset.  update sets frames_missed back to 0, so
\* the sum equals total_frames only until the first update that follows a
\* miss and is smaller from then on; total_frames itself is frames_detected
\* plus the number of markMissed calls.
C1_DetectedPlusMissCalls ==
  tc # NoCluster =>
    /\ tc.frames_detected = 1 + tc_calls.update
    /\ tc.total_frames = tc.frames_detected + tc_calls.markMissed
    /\ tc.frames_detected + tc.frames_missed + tc_calls.reset = tc.total_frames

\* an update has followed a miss: the sum is below total_frames
C1_Witness ==
  /\ tc # NoCluster
  /\ tc_calls.markMissed > 0
  /\ tc.frames_missed = 0
  /\ tc.frames_detected + tc.frames_missed < tc.total_frames

\* C2, as stated: an ACTIVE cluster that gets no further detection is FADING
\* after 5 consecutive missed frames (frames_to_fade of the configuration) and
\* LOST after 10 (frames_to_lost).
C2_FadeAfter5LostAfter10 ==
  [][(tc # NoCluster /\ tc' # NoCluster /\ tc'.frames_missed = tc.frames_missed + 1) =>
       /\ (tc.state = S_ACTIVE /\ tc'.frames_missed = CONFIG_FRAMES_TO_FADE
             => tc'.state = S_FADING)
       /\ (tc.state \in {S_ACTIVE, S_FADING} /\ tc'.frames_missed = CONFIG_FRAMES_TO_LOST
             => tc'.state = S_LOST)]_vars

\* C7: a call of update or markMissed changes the state only along one of
\* the six transitions of the table, whose guard holds of the counters and
\* scores the call has just computed.
C7_Guard(from, to, c) ==
  \/ /\ from = S_NEW /\ to = S_ACTIVE
     /\ c.frames_detected >= FRAMES_TO_ACTIVATE
     /\ RatGT(c.confidence, ACTIVATION_THRESHOLD)
  \/ /\ from = S_ACTIVE /\ to = S_STABLE
     /\ c.frames_detected >= FRAMES_TO_STABLE
     /\ RatGT(c.stability_score, STABILITY_THRESHOLD)
  \/ /\ from \in {S_ACTIVE, S_STABLE} /\ to = S_FADING
     /\ c.frames_missed >= FRAMES_TO_FADE
  \/ /\ from = S_FADING /\ to = S_LOST
     /\ c.frames_missed >= FRAMES_TO_LOST
  \/ /\ from = S_FADING /\ to = S_ACTIVE
     /\ c.frames_missed = 0

C7_OnlyTableTransitions ==
  [][(tc # NoCluster /\ tc' # NoCluster /\ tc'.state # tc.state) =>
       C7_Guard(tc.state, tc'.state, tc')]_vars

\* a cluster that went through STABLE and FADING to LOST
C7_Witness ==
  /\ tc # NoCluster
  /\ tc.state = S_LOST
  /\ tc.frames_detected >= FRAMES_TO_STABLE

-----------------------------------------------------------------------------
(* Claims on the cluster tracker (Spec) *)

\* a step that processes a scene message
IsFrame == frames' = frames + 1

\* C5, as stated: processing the same message a second time with the same
\* timestamp (identical scene, detections and timestamp) leaves the cluster
\* set unchanged: no cluster is updated, created or aged by the second call.
C5_SecondCallChangesNothing ==
  [][(IsFrame /\ message' = message) =>
       /\ active_clusters' = active_clusters
       /\ archived_clusters' = archived_clusters
       /\ next_uuid' = next_uuid]_vars

\* C6: every cluster starts in NEW, and LOST is terminal: a LOST cluster of
\* active memory is, after any step, either still there with the same state,
\* counters and every other field, or has moved as it was to the archive; and
\* what is in the archive stays there unchanged.
C6_NewStartLostTerminal ==
  [][/\ \A u \in DOMAIN active_clusters' \ DOMAIN active_clusters :
          /\ active_clusters'[u].state = S_NEW
          /\ active_clusters'[u].frames_detected = 1
     /\ \A u \in DOMAIN active_clusters :
          active_clusters[u].state = S_LOST =>
            \/ /\ u \in DOMAIN active_clusters'
               /\ active_clusters'[u] = active_clusters[u]
            \/ /\ u \notin DOMAIN active_clusters'
               /\ \E i \in 1..Len(archived_clusters') :
                    archived_clusters'[i] = active_clusters[u]
     /\ \A i \in 1..Len(archived_clusters) :
          /\ archived_clusters[i].state = S_LOST
          /\ i <= Len(archived_clusters')
          /\ archived_clusters'[i] = archived_clusters[i]]_vars

\* a LOST cluster is still in active memory after the message whose detection
\* lies exactly where it was: the detection has made a new cluster
C6_Witness ==
  /\ message # NoMessage
  /\ message.detections # <<>>
  /\ \E u, v \in DOMAIN active_clusters :
       /\ active_clusters[u].state = S_LOST
       /\ active_clusters[u].scene_id = message.scene_id
       /\ active_clusters[u].category = message.detections[1].category
       /\ active_clusters[u].centroid = message.detections[1].center_of_mass
       /\ active_clusters[v].state = S_NEW
       /\ active_clusters[v].centroid = active_clusters[u].centroid
       /\ active_clusters[v].first_seen = message.timestamp
       /\ active_clusters[v].total_frames = 1

\* the entry of a published batch for cluster u, as a set
BatchEntries(batch, u) ==
  IF batch = NoBatch THEN {}
  ELSE {batch.clusters[i] : i \in {j \in 1..Len(batch.clusters) : batch.clusters[j].id = u}}

\* C8: a cluster detected and matched in 3 consecutive frames with no miss
\* is ACTIVE after the third with frames_detected = 3 and is in the batch
\* published for that frame; while it is NEW it is in no published batch.
C8_ActiveAndPublishedAtThird ==
  [][IsFrame =>
       \A u \in DOMAIN active_clusters' :
         LET d == active_clusters'[u]
         IN  /\ (/\ u \in DOMAIN active_clusters
                 /\ active_clusters[u].frames_detected = 2
                 /\ active_clusters[u].total_frames = 2
                 /\ d.frames_detected = 3)
                => /\ d.state = S_ACTIVE
                   /\ d.total_frames = 3
                   /\ published' # NoBatch =>
                        \E e \in BatchEntries(published', u) :
                          /\ e.tracking.frames_detected = 3
                          /\ e.tracking.state = S_ACTIVE
             /\ d.state = S_NEW => BatchEntries(published', u) = {}]_vars

\* the batch of the third frame holds the cluster, which is ACTIVE
C8_Witness ==
  /\ published # NoBatch
  /\ \E u \in DOMAIN active_clusters :
       /\ active_clusters[u].state = S_ACTIVE
       /\ active_clusters[u].frames_detected = 3
       /\ active_clusters[u].total_frames = 3
       /\ \E e \in BatchEntries(published, u) : e.tracking.frames_detected = 3

\* C9: every cluster of a published batch is, when the batch is published, a
\* cluster of active memory in state ACTIVE, STABLE or FADING, and the batch
\* shows that state; NEW and LOST clusters are in no batch.
C9_OnlyPublishableStates ==
  [][(IsFrame /\ published' # NoBatch) =>
       /\ \A i \in 1..Len(published'.clusters) :
            LET e == published'.clusters[i]
            IN  /\ e.id \in DOMAIN active_clusters'
                /\ active_clusters'[e.id].state \in {S_ACTIVE, S_STABLE, S_FADING}
                /\ e.tracking.state = active_clusters'[e.id].state
       /\ \A u \in DOMAIN active_clusters' :
            active_clusters'[u].state \in {S_NEW, S_LOST}
              => BatchEntries(published', u) = {}]_vars

\* a batch published for a scene that holds a LOST and a NEW cluster as well
\* as the cluster the batch shows
C9_Witness ==
  /\ published # NoBatch
  /\ published.timestamp = clock
  /\ Len(published.clusters) > 0
  /\ \E u, v \in DOMAIN active_clusters :
       /\ active_clusters[u].scene_id = published.scene_id
       /\ active_clusters[u].state = S_LOST
       /\ active_clusters[v].scene_id = published.scene_id
       /\ active_clusters[v].state = S_NEW

\* the uuids of the archived clusters
ArchivedIds(archived) == {archived[i].uuid : i \in 1..Len(archived)}

\* archived by forceClearClustersByCategory: LOST without the misses that
\* lead there
ForceArchived(c) == c.state = S_LOST /\ c.frames_missed < FRAMES_TO_LOST

\* C16: an archived cluster, force-archived ones included, is never changed
\* again, never returns to active memory and is in no batch published
\* afterwards; clusters created later get ids that no cluster has had.
C16_ArchivedNeverComesBack ==
  [][/\ \A i \in 1..Len(archived_clusters) :
          \A j \in 1..Len(archived_clusters') :
            archived_clusters'[j].uuid = archived_clusters[i].uuid
              => archived_clusters'[j] = archived_clusters[i]
     /\ ArchivedIds(archived_clusters) \cap DOMAIN active_clusters' = {}
     /\ \A i, j \in 1..Len(archived_clusters') :
          archived_clusters'[i].uuid = archived_clusters'[j].uuid => i = j
     /\ (IsFrame /\ published' # NoBatch)
          => \A i \in 1..Len(published'.clusters) :
               published'.clusters[i].id \notin ArchivedIds(archived_clusters)
     /\ next_uuid' >= next_uuid
     /\ \A u \in DOMAIN active_clusters' \ DOMAIN active_clusters :
          /\ u >= next_uuid
          /\ u < next_uuid'
          /\ u \notin ArchivedIds(archived_clusters')]_vars

\* a force-archived cluster, and a cluster with another id that a later
\* detection at the same place has created and that has been published
C16_Witness ==
  \E i \in 1..Len(archived_clusters) :
    /\ ForceArchived(archived_clusters[i])
    /\ \E u \in DOMAIN active_clusters :
         /\ u # archived_clusters[i].uuid
         /\ active_clusters[u].centroid = archived_clusters[i].centroid
         /\ active_clusters[u].category = archived_clusters[i].category
         /\ active_clusters[u].scene_id = archived_clusters[i].scene_id
         /\ published # NoBatch
         /\ \E k \in 1..Len(published.clusters) : published.clusters[k].id = u

\* C17: after the cleanup that ends the handling of a scene message with
\* timestamp now, no cluster in active memory is LOST and last seen more
\* than ARCHIVE_TIME_THRESHOLD before now; every cluster that has left
\* active memory is in the archive, LOST and last seen more than the
\* threshold before now.
C17_CleanupArchivesLostAndOld ==
  [][IsFrame =>
       LET now == message'.timestamp
           Due(c) == c.state = S_LOST /\ now - c.last_seen > ARCHIVE_TIME_THRESHOLD
       IN  /\ \A u \in DOMAIN active_clusters' : ~Due(active_clusters'[u])
           /\ \A u \in DOMAIN active_clusters \ DOMAIN active_clusters' :
                \E i \in 1..Len(archived_clusters') :
                  /\ archived_clusters'[i].uuid = u
                  /\ Due(archived_clusters'[i])]_vars

\* the cleanup has archived a LOST cluster and has kept a cluster that is
\* not LOST although it was last seen more than the threshold ago
C17_Witness ==
  /\ \E i \in 1..Len(archived_clusters) :
       /\ ~ForceArchived(archived_clusters[i])
       /\ clock - archived_clusters[i].last_seen > ARCHIVE_TIME_THRESHOLD
  /\ \E u \in DOMAIN active_clusters :
       /\ active_clusters[u].state # S_LOST
       /\ clock - active_clusters[u].last_seen > ARCHIVE_TIME_THRESHOLD

\* C20, as stated: the handling of a message of one scene leaves every
\* cluster of every other scene in active memory, unchanged.
C20_OtherScenesUntouched ==
  [][IsFrame =>
       \A u \in DOMAIN active_clusters :
         active_clusters[u].scene_id # message'.scene_id
           => /\ u \in DOMAIN active_clusters'
              /\ active_clusters'[u] = active_clusters[u]]_vars

\* the cluster with the uuid after the step, in active memory or in the
\* archive
ClusterAfter(u) ==
  IF u \in DOMAIN active_clusters' THEN active_clusters'[u]
  ELSE LET i == CHOOSE j \in 1..Len(archived_clusters') : archived_clusters'[j].uuid = u
       IN  archived_clusters'[i]

\* C30: when a scene message with a timestamp later than the last_updated
\* of every cluster is processed, every cluster of the scene that is not
\* LOST gets exactly one update (one more detected frame, seen at the
\* timestamp) or exactly one miss (one more missed frame, no more detected
\* frame), and one more total frame, whatever detections the message has.
C30_EachClusterAgedOnce ==
  [][(/\ IsFrame
      /\ \A u \in DOMAIN active_clusters :
           active_clusters[u].last_updated < message'.timestamp)
       => \A u \in DOMAIN active_clusters :
            (/\ active_clusters[u].scene_id = message'.scene_id
             /\ active_clusters[u].state # S_LOST)
              => LET before == active_clusters[u]
                     after == ClusterAfter(u)
                 IN  /\ after.total_frames = before.total_frames + 1
                     /\ after.last_updated = message'.timestamp
                     /\ \/ /\ after.frames_detected = before.frames_detected + 1
                           /\ after.frames_missed = 0
                           /\ after.last_seen = message'.timestamp
                        \/ /\ after.frames_detected = before.frames_detected
                           /\ after.frames_missed = before.frames_missed + 1
                           /\ after.last_seen = before.last_seen]_vars

\* a message without any detection, later than the one before, has been
\* processed, and a cluster of its scene that had been updated before got
\* its miss from it
C30_Witness ==
  /\ frames >= 2
  /\ message.detections = <<>>
  /\ message.timestamp = clock
  /\ \E u \in DOMAIN active_clusters :
       /\ active_clusters[u].scene_id = message.scene_id
       /\ active_clusters[u].last_updated = clock
       /\ active_clusters[u].last_seen < clock
       /\ active_clusters[u].frames_detected >= 2
       /\ active_clusters[u].frames_missed = 1

-----------------------------------------------------------------------------
(* Claims on the context (SpecContext, SpecArchive) *)

\* a step that is a call of setUserDbscanParamsForCategory
IsSetParams == "eps" \in DOMAIN message'

\* C15, as stated: after a call of setUserDbscanParamsForCategory that
\* changes the parameters significantly, active memory holds no cluster of
\* the scene whose category is, up to case, the one given.
C15_SignificantChangeClearsCategory ==
  [][(/\ IsSetParams
      /\ SignificantChange(
           getDbscanParamsForCategory(user_dbscan_params_by_scene,
                                      message'.category, message'.scene_id),
           [eps |-> message'.eps, min_samples |-> message'.min_samples]))
       => \A u \in DOMAIN active_clusters' :
            ~(/\ active_clusters'[u].scene_id = message'.scene_id
              /\ lower(active_clusters'[u].category) = lower(message'.category))]_vars

\* C18, as stated: the archive never holds more than MAX_ARCHIVED_CLUSTERS
\* clusters.
C18_ArchiveAtMost50 == Len(archived_clusters) <= MAX_ARCHIVED_CLUSTERS

\* C19, as stated: a scene message whose handling raises leaves cluster
\* memory as it was before the message.
C19_FailedMessageChangesNothing ==
  [][(IsFrame /\ message'.raises_at > 0) =>
       /\ active_clusters' = active_clusters
       /\ archived_clusters' = archived_clusters
       /\ clusters_by_scene' = clusters_by_scene
       /\ clusters_by_category' = clusters_by_category
       /\ next_uuid' = next_uuid]_vars

-----------------------------------------------------------------------------
(* Claims on the matcher (SpecMatch) *)

\* the cost of pairing the cluster and the detection at the two places
PairCost(p) ==
  calculateMatchingCost(matching.existing_clusters[p[1]], matching.new_detections[p[2]])

\* the pair is in the list match returned
Returns(p) ==
  \E t \in matching.matches :
     t[1] = matching.existing_clusters[p[1]].uuid /\ t[2] = p[2]

\* C22, as stated: a pair of the assignment is in the list match returns
\* exactly when its cost is at most MAX_MATCHING_DISTANCE, and every
\* similarity returned is between 0 and 1.
C22_ReturnedIffCostAtMostMax ==
  matching.done =>
    /\ \A p \in matching.assignment :
         Returns(p) <=> PairCost(p) <= MAX_MATCHING_DISTANCE * CostScale
    /\ \A t \in matching.matches :
         t[3] >= 0 /\ t[3] <= MAX_MATCHING_DISTANCE * CostScale

\* the sets of pairs of places that use no place twice and leave no place
\* of the shorter list out
CompletePairings ==
  LET n == Len(matching.existing_clusters)
      m == Len(matching.new_detections)
  IN  {b \in SUBSET ((1..n) \X (1..m)) :
         /\ \A p, q \in b : p # q => p[1] # q[1] /\ p[2] # q[2]
         /\ Cardinality(b) = IF n <= m THEN n ELSE m}

RECURSIVE TotalCost(_)
TotalCost(b) ==
  IF b = {} THEN 0
  ELSE LET p == CHOOSE q \in b : TRUE
       IN  PairCost(p) + TotalCost(b \ {p})

C29_UpdateNeverInterleaves ==
  ~(/\ mqtt.pc # "idle"
    /\ webui.pc # "idle"
    /\ mqtt.scene_id = webui.scene_id)

\* a step that is a call of resetUserDbscanParamsForCategory
IsReset == "reset" \in DOMAIN message'

\* the parameters getDbscanParamsForCategory returns now
Returned(category, scene_id) ==
  getDbscanParamsForCategory(user_dbscan_params_by_scene, category, scene_id)

\* C24: with nothing set, getDbscanParamsForCategory returns the default
\* of the category where the configuration has one and the global default
\* otherwise.  After parameters are set for a scene and a category it
\* returns them for that scene and the category in either case; after a
\* reset it returns the default again; and no call changes what is
\* returned for another scene or another category, nor does a scene
\* message.
C24_OverrideThenCategoryThenGlobal ==
  /\ \A s \in Scenes, c \in Categories :
       Returned(c, s) = getDefaultDbscanParamsForCategory(c)
  /\ [][\A s \in Scenes, c \in Categories :
          Returned(c, s)' =
            IF (IsSetParams \/ IsReset) /\ s = message'.scene_id
                 /\ lower(c) = lower(message'.category)
            THEN IF IsSetParams
                 THEN [eps |-> message'.eps, min_samples |-> message'.min_samples]
                 ELSE getDefaultDbscanParamsForCategory(c)
            ELSE Returned(c, s)]_vars

\* a scene has its own parameters for people, set with the category
\* written in capitals, while the other scene and the vehicles have the
\* defaults, which differ
C24_Witness ==
  /\ "eps" \in DOMAIN message
  /\ message.category = "Person"
  /\ Returned("person", message.scene_id)
       = [eps |-> message.eps, min_samples |-> message.min_samples]
  /\ Returned("person", message.scene_id) # getDefaultDbscanParamsForCategory("person")
  /\ \E s \in Scenes : Returned("person", s) = getDefaultDbscanParamsForCategory("person")
  /\ Returned("vehicle", message.scene_id) = CATEGORY_DBSCAN_PARAMS["vehicle"]
  /\ Returned("vehicle", message.scene_id) # getDefaultDbscanParamsForCategory("person")

\* C21: every scene message is handled without an exception leaving
\* processSceneAnalytics, and a message whose payload is not JSON changes
\* neither cluster memory nor what has been published.
C21_CallbackAlwaysReturns ==
  [][IsFrame =>
       /\ ~message'.escaped
       /\ message'.raises_at = InvalidJson =>
            /\ active_clusters' = active_clusters
            /\ archived_clusters' = archived_clusters
            /\ clusters_by_scene' = clusters_by_scene
            /\ clusters_by_category' = clusters_by_category
            /\ next_uuid' = next_uuid
            /\ published' = published]_vars

\* a payload that is not JSON has been handled while the memory held a
\* cluster
C21_Witness ==
  /\ frames = MaxCtxFrames
  /\ "raises_at" \in DOMAIN message
  /\ message.raises_at = InvalidJson
  /\ ~message.escaped
  /\ DOMAIN active_clusters # {}

-----------------------------------------------------------------------------
(* Claims on the controller (SpecTracking) *)

\* a step that is a trackObjects call
IsCall == call'.id = call.id + 1

\* the items a worker has: queued, in hand, or handed to trackCategory
ItemsOf(t) ==
  {t.queue[i] : i \in 1..Len(t.queue)} \cup {t.handed[i] : i \in 1..Len(t.handed)}
    \cup ({t.item} \ {NoItem})

\* C3, as stated: a detection passed to trackObjects while the worker of its
\* category has not completed the tracking step of an earlier one is dropped:
\* it is never passed to trackCategory and never shown by currentObjects.
C3_BusyDetectionDropped ==
  \A c \in DOMAIN trackers :
    /\ \A i \in 1..Len(trackers[c].handed) : ~trackers[c].handed[i].busy
    /\ \A it \in ItemsOf(trackers[c]) :
         it.busy => \A i \in 1..Len(currentObjects(trackers, c)) :
                      currentObjects(trackers, c)[i].id # it.objects

\* C4, as stated: a trackObjects call that finds the queue of a category
\* occupied adds exactly one to the dropped-messages counter of that
\* category, puts nothing into the queue and leaves the queued item in
\* place; a call that enqueues its work does not touch the counter.
C4_DropCountsOne ==
  [][(IsCall /\ call'.use_tracker) =>
       \A c \in call'.categories :
         IF c \in DOMAIN trackers /\ trackers[c].queue # <<>>
         THEN /\ dropped'[c] = dropped[c] + 1
              /\ trackers'[c] = trackers[c]
         ELSE /\ dropped'[c] = dropped[c]
              /\ Len(trackers'[c].queue) = 1
              /\ trackers'[c].queue[1].objects = call'.id]_vars

\* C4, amended: the counter grows by exactly one on such a call when
\* metrics.init() has been called with metrics enabled; without an
\* initialised instance, or with metrics disabled, the drop is not counted.
\* Either way nothing is put into the queue, the queued item and the worker
\* are left as they are, and the call completes; a call that enqueues its
\* work does not touch the counter.  Counters of categories the call does
\* not name do not change.
C4_DropCountsOneWhenEnabled ==
  [][(IsCall /\ call'.use_tracker) =>
       /\ \A c \in call'.categories :
            IF c \in DOMAIN trackers /\ trackers[c].queue # <<>>
            THEN /\ dropped'[c] = dropped[c]
                                    + (IF metrics_instance = "enabled" THEN 1 ELSE 0)
                 /\ trackers'[c] = trackers[c]
            ELSE /\ dropped'[c] = dropped[c]
                 /\ Len(trackers'[c].queue) = 1
                 /\ trackers'[c].queue[1].objects = call'.id
       /\ \A c \in TrackCategories \ call'.categories : dropped'[c] = dropped[c]]_vars

\* a call has just been dropped and counted: the counter is 1 and the queue
\* still holds the item of an earlier call
C4_Witness ==
  \E c \in DOMAIN trackers :
    /\ metrics_instance = "enabled"
    /\ dropped[c] = 1
    /\ c \in call.categories
    /\ call.use_tracker
    /\ Len(trackers[c].queue) = 1
    /\ trackers[c].queue[1].objects < call.id

\* C10, as stated: when the thread of a category worker has ended because
\* trackCategory raised, the next trackObjects call naming the category
\* leaves a running worker for it.
C10_DeadWorkerReplaced ==
  [][(IsCall /\ call'.use_tracker) =>
       \A c \in call'.categories :
         (c \in DOMAIN trackers /\ trackers[c].thread = "raised")
           => trackers'[c].thread = "running"]_vars

\* the worker of c has finished the item of call id: it has passed it to
\* trackCategory, copied the result to curObjects and marked it done
Processed(c, id) ==
  /\ \E i \in 1..Len(trackers[c].handed) : trackers[c].handed[i].objects = id
  /\ trackers[c].item.objects # id

\* C11, as stated: once join() has been called it ends (it returns, or
\* raises), whatever the workers have done before.
C11_JoinEnds ==
  (joiner.pc # "idle") ~> (joiner.pc \in {"done", "raised"})

\* C12: the worker handles the shutdown sentinel only after it has finished
\* every item that was pending when join() put the sentinel, and join() does
\* not go past a category before its worker has finished them.
C12_PendingFinishedBeforeExit ==
  \A c \in DOMAIN joiner.pending :
    (trackers[c].thread = "exited" \/ c \notin joiner.left)
      => \A id \in joiner.pending[c] : Processed(c, id)

\* join() has returned after waiting for a worker that had an item pending
C12_Witness ==
  /\ joiner.pc = "done"
  /\ \E c \in DOMAIN joiner.pending :
       /\ joiner.pending[c] # {}
       /\ trackers[c].thread = "exited"
       /\ \A id \in joiner.pending[c] : Processed(c, id)

\* C13, as stated: a trackObjects call made after join() has signalled the
\* worker of a category (has put the sentinel into its queue) puts no item
\* into the queue of that worker.
C13_NoEnqueueAfterJoin ==
  [][IsCall =>
       \A c \in DOMAIN joiner.pending :
         \A i \in 1..Len(trackers'[c].queue) :
           trackers'[c].queue[i].objects # call'.id]_vars

\* C14, as stated: if no tracking step raises, every item accepted into the
\* queue of a worker is eventually passed to trackCategory, followed by the
\* copy of the result to curObjects.
C14_AcceptedEventuallyProcessed ==
  ([](\A c \in DOMAIN trackers : trackers[c].thread # "raised"))
    => \A c \in TrackCategories, id \in 1..MaxCalls :
         (c \in DOMAIN trackers /\ id \in PendingIds(trackers[c]))
           ~> (c \in DOMAIN trackers /\ Processed(c, id))

\* the ids of the tracks currentObjects(c) returns
ShownIds(ts, c) ==
  {currentObjects(ts, c)[i].id : i \in 1..Len(currentObjects(ts, c))}

\* a step in which the worker of c copies its working collection to
\* curObjects
IsPublish(c) ==
  /\ c \in DOMAIN trackers
  /\ trackers[c].pc = "publish"
  /\ trackers'[c].pc = "get"

C26_RetiredNeverShown ==
  \A c \in DOMAIN trackers : trackers[c].retired \cap ShownIds(trackers, c) = {}

\* C27, as stated: the queue of a worker never holds more than one item.
C27_QueueHoldsAtMostOne ==
  \A c \in DOMAIN trackers : Len(trackers[c].queue) <= 1

\* C28, as stated: while a worker runs a tracking step, curObjects is not
\* the list all_tracker_objects.
C28_SnapshotNeverTheWorkingList ==
  \A c \in DOMAIN trackers :
    (/\ trackers[c].thread = "running"
     /\ trackers[c].pc = "track"
     /\ trackers[c].item # Sentinel) => ~trackers[c].aliased

-----------------------------------------------------------------------------
(* Detections and clusters of a frame *)

\* the clusters a scene message has created or has counted a detection for
Touched ==
  {u \in DOMAIN active_clusters' :
     \/ u \notin DOMAIN active_clusters
     \/ active_clusters'[u].frames_detected # active_clusters[u].frames_detected}

\* cluster u, after the message, carries detection det of the message
Carries(u, det) ==
  LET c == active_clusters'[u]
  IN  /\ c.scene_id = message'.scene_id
      /\ c.category = det.category
      /\ c.centroid = det.center_of_mass
      /\ c.shape = det.shape
      /\ c.object_count = det.objects_count
      /\ c.last_seen = message'.timestamp
      /\ IF u \in DOMAIN active_clusters
         THEN c.frames_detected = active_clusters[u].frames_detected + 1
         ELSE c.state = S_NEW /\ c.frames_detected = 1

\* C31: the detections of a scene message and the clusters it has updated
\* or created correspond one to one: every detection is carried by its own
\* cluster, which is either a cluster of the memory whose frames_detected
\* went up by one or a new cluster in state NEW with frames_detected = 1,
\* no cluster takes two detections, and no other cluster has been created
\* or has counted a detection
C31_OneClusterPerDetection ==
  [][frames' = frames + 1 =>
       LET n == Len(message'.detections)
       IN  /\ Cardinality(Touched) = n
           /\ next_uuid' - next_uuid = Cardinality(Touched \ DOMAIN active_clusters)
           /\ \E f \in Injections(1..n, Touched) :
                \A i \in 1..n : Carries(f[i], message'.detections[i])]_vars

\* a message with two detections has been handled: one of them updated the
\* cluster of an earlier message, the other created a cluster
C31_Witness ==
  /\ message # NoMessage
  /\ Len(message.detections) = 2
  /\ \E u, v \in DOMAIN active_clusters :
       /\ active_clusters[u].scene_id = message.scene_id
       /\ active_clusters[v].scene_id = message.scene_id
       /\ active_clusters[u].frames_detected = 2
       /\ active_clusters[u].last_seen = clock
       /\ active_clusters[v].frames_detected = 1
       /\ active_clusters[v].first_seen = clock

-----------------------------------------------------------------------------
(* Claims on the observation history (SpecHistory) *)

\* C32, as stated: after any sequence of update and markMissed calls the
\* length of the cluster's observation history equals
\* min(total_frames, 100).
C32_HistoryLenIsMinTotal ==
  tc # NoCluster =>
    Len(tc.history.timestamps) = Min(tc.total_frames, MAX_HISTORY_SIZE)

\* C32, amended: after any sequence of update and markMissed calls the
\* length of the cluster's observation history equals
\* min(frames_detected, 100): a miss counts a frame and records no
\* observation.
C32_HistoryLenIsMinDetected ==
  tc # NoCluster =>
    Len(tc.history.timestamps) = Min(tc.frames_detected, MAX_HISTORY_SIZE)

\* a cluster that has been missed has been detected more often than its
\* history holds observations
C32_Witness ==
  /\ tc # NoCluster
  /\ tc.frames_detected > MAX_HISTORY_SIZE
  /\ tc.total_frames > tc.frames_detected
  /\ Len(tc.history.timestamps) = MAX_HISTORY_SIZE

\* the five lists of a history have one length, at most MAX_HISTORY_SIZE,
\* and the entries at one place belong to one observation
HistoryAligned(h) ==
  /\ Len(h.timestamps) <= MAX_HISTORY_SIZE
  /\ Len(h.positions) = Len(h.timestamps)
  /\ Len(h.velocities) = Len(h.timestamps)
  /\ Len(h.sizes) = Len(h.timestamps)
  /\ Len(h.shapes) = Len(h.timestamps)
  /\ \A i \in 1..Len(h.timestamps) :
       /\ h.positions[i][3] = h.timestamps[i]
       /\ h.velocities[i][3] = h.timestamps[i]
       /\ \E det \in FsmDets :
            /\ h.positions[i][1] = det.center_of_mass.x
            /\ h.velocities[i][1] = det.average_velocity
            /\ h.sizes[i] = det.objects_count
            /\ h.shapes[i] = det.shape

\* list new is list old with x appended and, if that made it longer than
\* MAX_HISTORY_SIZE, without its first entry
OldestDropped(old, new, x) ==
  LET k == Len(old) + 1 - Len(new)
  IN  /\ Len(new) = Min(Len(old) + 1, MAX_HISTORY_SIZE)
      /\ new[Len(new)] = x
      /\ \A i \in 1..(Len(new) - 1) : new[i] = old[i + k]

\* C33: the five lists of a cluster's history always have the same length,
\* at most 100, with the entries of one observation at the same place, and
\* an update appends its observation to each list and, when the lists
\* already hold 100 entries, drops the oldest entry of each
C33_HistoryCappedOldestDropped ==
  /\ [](tc # NoCluster => HistoryAligned(tc.history))
  /\ [][(tc # NoCluster /\ tc'.frames_detected # tc.frames_detected) =>
          /\ OldestDropped(tc.history.timestamps, tc'.history.timestamps, tc'.last_seen)
          /\ OldestDropped(tc.history.positions, tc'.history.positions,
                           <<tc'.centroid.x, tc'.centroid.y, tc'.last_seen>>)
          /\ OldestDropped(tc.history.velocities, tc'.history.velocities,
                           <<tc'.velocity, 0, tc'.last_seen>>)
          /\ OldestDropped(tc.history.sizes, tc'.history.sizes, tc'.object_count)
          /\ OldestDropped(tc.history.shapes, tc'.history.shapes, tc'.shape)]_vars

\* the history of a cluster has overflowed twice: its oldest observation
\* is the third one, and it holds observations of both detections
C33_Witness ==
  /\ tc # NoCluster
  /\ tc.frames_detected = MAX_HISTORY_SIZE + 2
  /\ Len(tc.history.timestamps) = MAX_HISTORY_SIZE
  /\ tc.history.timestamps[1] > tc.first_seen
  /\ \E i, j \in 1..MAX_HISTORY_SIZE : tc.history.shapes[i] # tc.history.shapes[j]

-----------------------------------------------------------------------------
(* Claims on the metrics of a cluster (SpecFsm) *)

\* the rational r lies in [0, 1]
InUnitInterval(r) == r.den > 0 /\ 0 <= r.num /\ r.num <= r.den

\* C34: in every reachable state the cluster's confidence lies in [0, 1]
\* and its stability_score lies in [0, 1]
C34_ConfidenceAndStabilityInUnitInterval ==
  tc # NoCluster =>
    /\ InUnitInterval(tc.confidence)
    /\ InUnitInterval(tc.stability_score)

\* a cluster detected in every frame, whose detection ratio and longevity
\* bonus add up to more than 1, has confidence 1; its observations differ,
\* and its stability lies strictly between 0 and 1
C34_Witness ==
  /\ tc # NoCluster
  /\ tc.frames_detected = tc.total_frames
  /\ tc.frames_detected >= FRAMES_TO_ACTIVATE
  /\ tc.confidence = Rat(1, 1)
  /\ 0 < tc.stability_score.num
  /\ tc.stability_score.num < tc.stability_score.den

-----------------------------------------------------------------------------
(* Claims on the end of a cluster (SpecLossFair) *)

\* cluster u has been moved to the archive, in state LOST
ArchivedLost(u) ==
  /\ u \notin DOMAIN active_clusters
  /\ \E i \in 1..Len(archived_clusters) :
       archived_clusters[i].uuid = u /\ archived_clusters[i].state = S_LOST

-----------------------------------------------------------------------------
(* Claims on the size of the active memory (SpecCrowd) *)

\* C36, as stated: the number of clusters held in active memory never
\* exceeds MAX_ACTIVE_CLUSTERS, after any sequence of frames.
C36_ActiveAtMostMax ==
  Cardinality(DOMAIN active_clusters) <= MAX_ACTIVE_CLUSTERS

-----------------------------------------------------------------------------
(* Claims on the states of a cluster (SpecFsm) *)

\* C37: in every reachable state a cluster in state ACTIVE, STABLE or
\* FADING has frames_detected >= FRAMES_TO_ACTIVATE, and a cluster in state
\* STABLE has frames_detected >= FRAMES_TO_STABLE
C37_PublishableDetectedOftenEnough ==
  tc # NoCluster =>
    /\ tc.state \in {S_ACTIVE, S_STABLE, S_FADING} =>
         tc.frames_detected >= FRAMES_TO_ACTIVATE
    /\ tc.state = S_STABLE => tc.frames_detected >= FRAMES_TO_STABLE

\* a cluster has turned STABLE with its twentieth detection, after misses
\* in between
C37_Witness ==
  /\ tc # NoCluster
  /\ tc.state = S_STABLE
  /\ tc.frames_detected = FRAMES_TO_STABLE
  /\ tc.total_frames > tc.frames_detected

-----------------------------------------------------------------------------
(* Claims on the indices of the memory (SpecMemory) *)

\* the list holds each id of the set once, and nothing else
HoldsExactly(list, ids) ==
  /\ {list[i] : i \in 1..Len(list)} = ids
  /\ Len(list) = Cardinality(ids)

\* C38: in every reachable state the by-scene index of a scene holds
\* exactly the ids of the active clusters of that scene, each once, the
\* by-category index of a category exactly those of that category, every
\* active cluster is stored under its own id, and no id is in active memory
\* and in the archive at the same time
C38_IndicesMatchActiveMemory ==
  /\ \A s \in DOMAIN clusters_by_scene :
       HoldsExactly(clusters_by_scene[s],
                    {u \in DOMAIN active_clusters : active_clusters[u].scene_id = s})
  /\ \A k \in DOMAIN clusters_by_category :
       HoldsExactly(clusters_by_category[k],
                    {u \in DOMAIN active_clusters : active_clusters[u].category = k})
  /\ \A u \in DOMAIN active_clusters :
       /\ active_clusters[u].uuid = u
       /\ active_clusters[u].scene_id \in DOMAIN clusters_by_scene
       /\ active_clusters[u].category \in DOMAIN clusters_by_category
  /\ DOMAIN active_clusters \cap ArchivedIds(archived_clusters) = {}

\* the archive holds a cluster that was force-cleared and one that the
\* cleanup archived after it was lost, and a cluster is still active
C38_Witness ==
  /\ \E i \in 1..Len(archived_clusters) : ForceArchived(archived_clusters[i])
  /\ \E i \in 1..Len(archived_clusters) :
       archived_clusters[i].frames_missed >= FRAMES_TO_LOST
  /\ DOMAIN active_clusters # {}

====
